---------------------------- MODULE Spec2Model ----------------------------
(***************************************************************************)
(* Streaming relay of the order flow visualizer backend:                   *)
(*   - tick aggregation            (backend/main.py, backend/main_v2.py)   *)
(*   - broadcast fan-out           (backend/main.py, backend/main_v2.py)   *)
(*   - upstream feed client        (backend/main.py, DhanWebSocketClient)  *)
(*   - symbol resolution           (backend/symbol_manager.py)             *)
(*   - viewer command handling     (backend/main.py, backend/main_v2.py)   *)
(* Each subsystem has its own specification over the shared variables.     *)
(***************************************************************************)
EXTENDS Integers, Sequences, FiniteSets, TLC

VARIABLES
    variant,                \* "v1" (main.py) or "v2" (main_v2.py)
    now,                    \* time.time(), in units of 50 ms
    tick_buffer,            \* deque(maxlen=...) of ticks
    last_aggregation_time,  \* global last_aggregation_time
    last_call,              \* outcome of the most recent aggregate_ticks() call
    symbols_cache,          \* SymbolManager.symbols_cache: symbol -> info
    db_symbols,             \* table symbols of data/symbols.db: symbol -> row
    symbol_requests,        \* table symbol_requests of data/symbols.db
    last_resolve,           \* the most recent get_symbol_info() call
    net_resolved,           \* symbol -> the record its first network resolution gave
    cache_order,            \* the keys of symbols_cache in dict (insertion) order
    last_search,            \* the most recent search_symbols() call
    current_symbol,         \* global current_symbol
    websocket,              \* DhanWebSocketClient.websocket: "None", "open", "closed"
    connected,              \* DhanWebSocketClient.connected
    reconnect_attempts,     \* DhanWebSocketClient.reconnect_attempts
    feed_pc,                \* where the connect() and listen() callers stand
    sent_upstream,          \* subscribe messages sent on the transport
    backoff,                \* waits and attempt counts of the reconnect policy
    last_message,           \* the most recent message listen() received
    listen_error,           \* the exception recv() just raised in listen()
    subscribes,             \* the last subscribe_market_depth() calls made in a row
    connected_clients,      \* global connected_clients: the registered sessions
    viewers,                \* each session's websocket_endpoint handler
    dhan_manager,           \* main_v2.py global dhan_manager: "None" or "manager"
    market_open,            \* what historical_manager.is_market_hours() returns now
    market_feed,            \* the SDK feed of dhan_integration.py and its threads
    last_broadcast,         \* the broadcast_to_clients() call just made
    last_command            \* the viewer command just handled

aggVars == <<variant, now, tick_buffer, last_aggregation_time, last_call>>

symVars == <<symbols_cache, db_symbols, symbol_requests, last_resolve, net_resolved,
             cache_order, last_search>>

clientVars == <<websocket, connected, reconnect_attempts>>

feedVars == <<current_symbol, clientVars, feed_pc, sent_upstream, backoff,
              last_message, listen_error, subscribes>>

hubVars == <<connected_clients, viewers, dhan_manager, market_open, market_feed,
            last_broadcast,
            last_command>>

vars == <<aggVars, symVars, feedVars, hubVars>>

(***************************************************************************)
(* Bounds of the model.                                                    *)
(***************************************************************************)
\* Capacity of tick_buffer in the model (deque(maxlen=10000) in the source).
TickBufferMaxLen == 3
\* Last instant of the clock, in units of 50 ms.
MaxTime == 3

\* Rows the table symbol_requests can hold in the model.
MaxRequests == 2

\* Subscribe messages the transport carries in the model.
MaxSent == 2
\* Automatic reconnect attempts followed in one run of failures.
MaxRun == 6

\* The 100 ms aggregation window (0.1 s), in units of 50 ms.
AggregationWindow == 2

Variants == {"v1", "v2"}
Prices == {100, 101}
Quantities == {1, 2}
Sides == {"buy", "sell", "unknown"}
Ticks == [price : Prices, quantity : Quantities, side : Sides]

(***************************************************************************)
(* Symbol resolution (backend/symbol_manager.py).  Symbols and names are   *)
(* sequences of characters, so that str.upper() and substring tests are    *)
(* computed.                                                               *)
(***************************************************************************)
\* str.upper() on one character.
UpperChar(c) ==
    CASE c = "a" -> "A"
      [] c = "b" -> "B"
      [] c = "c" -> "C"
      [] c = "d" -> "D"
      [] c = "e" -> "E"
      [] c = "f" -> "F"
      [] c = "g" -> "G"
      [] c = "h" -> "H"
      [] c = "i" -> "I"
      [] c = "j" -> "J"
      [] c = "k" -> "K"
      [] c = "l" -> "L"
      [] c = "m" -> "M"
      [] c = "n" -> "N"
      [] c = "o" -> "O"
      [] c = "p" -> "P"
      [] c = "q" -> "Q"
      [] c = "r" -> "R"
      [] c = "s" -> "S"
      [] c = "t" -> "T"
      [] c = "u" -> "U"
      [] c = "v" -> "V"
      [] c = "w" -> "W"
      [] c = "x" -> "X"
      [] c = "y" -> "Y"
      [] c = "z" -> "Z"
      [] OTHER -> c

\* str.upper().
Upper(s) == [i \in 1..Len(s) |-> UpperChar(s[i])]

AAPL == <<"A", "A", "P", "L">>
TCS == <<"T", "C", "S">>
ITC == <<"I", "T", "C">>
RELIANCE == <<"R", "E", "L", "I", "A", "N", "C", "E">>

\* The symbols callers ask for, in several letter cases.
SymbolArgs == {AAPL, <<"a", "a", "p", "l">>, TCS, <<"t", "c", "s">>, ITC}

\* Python's None.
None == [none |-> TRUE]

\* _mock_symbol_fetch: the table mock_symbols (its entry for AAPL; GOOGL and
\* MSFT are entries of the same shape).
MockSymbols ==
    (AAPL :> [token |-> "1234567", name |-> <<"A", "P", "P", "L", "E", " ", "I", "N", "C">>,
              sector |-> <<"T", "e", "c", "h", "n", "o", "l", "o", "g", "y">>])

MockSymbolFetch(symbol) ==
    IF symbol \in DOMAIN MockSymbols THEN MockSymbols[symbol] ELSE None

\* _fetch_symbol_from_api: the mock's answer (an exception gives None).
FetchSymbolFromApi(symbol) == MockSymbolFetch(symbol)

\* What a quote API (DhanHQ market quote, NSE quote-equity) can answer for a
\* symbol: None (non-200, no data, an exception) or a record built from the
\* response, whose missing fields get the defaults of the .get calls.
NetTokens == {"", "2953217"}

NetAnswers(symbol) ==
    {None} \cup {[token |-> t, name |-> symbol, sector |-> <<>>, market_cap |-> ""] :
                    t \in NetTokens}

\* One call's environment: the two quote APIs' answers and whether the
\* sqlite write of the call goes through.
ResolveEnvs(symbol) ==
    [dhanhq : NetAnswers(symbol), nse : NetAnswers(symbol), db_ok : BOOLEAN]

\* The environments of the calls made for the feed's subscription: the DhanHQ
\* quote API answers or not, the NSE API does not, sqlite works.
FeedResolveEnvs(symbol) ==
    [dhanhq : NetAnswers(symbol), nse : {None}, db_ok : {TRUE}]

\* info.get(key, default) on an info dict.
Get(info, key, default) == IF key \in DOMAIN info THEN info[key] ELSE default

\* The row INSERT OR REPLACE writes to table symbols.
SymbolRow(symbol, info) ==
    [token      |-> Get(info, "token", ""),
     name       |-> Get(info, "name", symbol),
     sector     |-> Get(info, "sector", <<>>),
     market_cap |-> Get(info, "market_cap", ""),
     is_active  |-> TRUE]

\* f with key k set to v (dict assignment, INSERT OR REPLACE).
Put(f, k, v) == [x \in DOMAIN f \cup {k} |-> IF x = k THEN v ELSE f[x]]

\* _cache_symbol: the memory cache always takes the record; the table takes
\* it unless sqlite raises (logged, swallowed).
CacheSymbolDbOnly(st, symbol, info, db_ok) ==
    [st EXCEPT !.db = IF db_ok THEN Put(@, symbol, SymbolRow(symbol, info)) ELSE @]

CacheSymbol(st, symbol, info, db_ok) ==
    [st EXCEPT !.cache = Put(@, symbol, info),
               !.db = IF db_ok THEN Put(@, symbol, SymbolRow(symbol, info)) ELSE @]

\* _log_unknown_symbol: one row appended to symbol_requests unless sqlite
\* raises (logged, swallowed).
LogUnknownSymbolCached(st, symbol, db_ok) ==
    [st EXCEPT !.requests =
                  IF db_ok THEN Append(@, [symbol |-> symbol, status |-> "unknown"])
                  ELSE @,
               !.cache = Put(@, symbol, None)]

LogUnknownSymbol(st, symbol, db_ok) ==
    [st EXCEPT !.requests =
                  IF db_ok THEN Append(@, [symbol |-> symbol, status |-> "unknown"])
                  ELSE @]

\* _fetch_symbol_alternative: DhanHQ first, NSE only when DhanHQ gave nothing.
FetchSymbolAlternative(env) ==
    IF env.dhanhq /= None
    THEN [info |-> env.dhanhq, consulted |-> <<"dhanhq">>]
    ELSE [info |-> env.nse, consulted |-> <<"dhanhq", "nse">>]

\* get_symbol_info(arg) on the state st = [cache, db, requests]: the state it
\* leaves, the result and the sources consulted, in order.
GetSymbolInfo(st, arg, env) ==
    LET symbol == Upper(arg)
        api == FetchSymbolFromApi(symbol)
        alt == FetchSymbolAlternative(env)
    IN  IF symbol \in DOMAIN st.cache
        THEN [st |-> st, result |-> st.cache[symbol], consulted |-> <<"memory">>]
        ELSE IF api /= None
        THEN [st |-> CacheSymbol(st, symbol, api, env.db_ok),
              result |-> api, consulted |-> <<"memory", "primary">>]
        ELSE IF alt.info /= None
        THEN [st |-> CacheSymbol(st, symbol, alt.info, env.db_ok),
              result |-> alt.info,
              consulted |-> <<"memory", "primary">> \o alt.consulted]
        ELSE [st |-> LogUnknownSymbol(st, symbol, env.db_ok),
              result |-> None,
              consulted |-> <<"memory", "primary">> \o alt.consulted]

SymbolState == [cache |-> symbols_cache, db |-> db_symbols, requests |-> symbol_requests]

\* The symbol manager's variables after the call get_symbol_info(arg) with
\* outcome r in environment env.
\* Dict order: a key assigned for the first time goes last (a call adds at
\* most one key).
OrderAfter(order, cache) ==
    LET new == DOMAIN cache \ {order[i] : i \in 1..Len(order)}
    IN  IF new = {} THEN order ELSE Append(order, CHOOSE k \in new : TRUE)

ResolveLog(arg, env, r, net) ==
    [arg |-> arg, result |-> r.result, consulted |-> r.consulted,
     prior_net |-> Upper(arg) \in DOMAIN net,
     write |-> IF Len(r.consulted) = 1 THEN "none"
               ELSE IF env.db_ok THEN "ok" ELSE "failed"]

NetResolved(arg, r, net) ==
    IF Len(r.consulted) > 1 /\ r.result /= None
    THEN Put(net, Upper(arg), r.result)
    ELSE net

Resolved(arg, env, r) ==
    /\ symbols_cache' = r.st.cache
    /\ db_symbols' = r.st.db
    /\ symbol_requests' = r.st.requests
    /\ last_resolve' = ResolveLog(arg, env, r, net_resolved)
    /\ net_resolved' = NetResolved(arg, r, net_resolved)
    /\ cache_order' = OrderAfter(cache_order, r.st.cache)
    /\ last_search' = last_search

\* A caller awaits symbol_manager.get_symbol_info(arg).
ResolveSymbol ==
    \E arg \in SymbolArgs : \E env \in ResolveEnvs(Upper(arg)) :
        /\ Len(symbol_requests) < MaxRequests
        /\ Resolved(arg, env, GetSymbolInfo(SymbolState, arg, env))
        /\ UNCHANGED <<aggVars, feedVars, hubVars>>

\* Rows the table symbols can hold when the process starts.
EmptyTable == [x \in {} |-> None]

StoredRow(symbol, active) ==
    [token |-> "2953217", name |-> symbol, sector |-> <<>>, market_cap |-> "",
     is_active |-> active]

InitialTables ==
    {EmptyTable, (TCS :> StoredRow(TCS, TRUE)), (TCS :> StoredRow(TCS, FALSE))}

\* _load_cached_symbols: the active rows, without is_active.
LoadCachedSymbols(db) ==
    [symbol \in {x \in DOMAIN db : db[x].is_active} |->
        [token |-> db[symbol].token, name |-> db[symbol].name,
         sector |-> db[symbol].sector, market_cap |-> db[symbol].market_cap]]

\* The orders a set of keys can be loaded in (ORDER BY last_updated DESC).
Orders(keys) ==
    {o \in [1..Cardinality(keys) -> keys] : \A k \in keys : \E i \in DOMAIN o : o[i] = k}

NoSearch == [query |-> None]

NoCall ==
    [arg |-> <<>>, result |-> [no_call |-> TRUE], consulted |-> <<>>,
     prior_net |-> FALSE, write |-> "none"]

\* SymbolManager.__init__ on a fresh data/symbols.db.
InitSymbolsFresh ==
    /\ db_symbols = EmptyTable
    /\ symbols_cache = LoadCachedSymbols(db_symbols)
    /\ symbol_requests = <<>>
    /\ last_resolve = NoCall
    /\ net_resolved = EmptyTable
    /\ cache_order \in Orders(DOMAIN symbols_cache)
    /\ last_search = NoSearch

\* SymbolManager.__init__.
InitSymbols ==
    /\ db_symbols \in InitialTables
    /\ symbols_cache = LoadCachedSymbols(db_symbols)
    /\ symbol_requests = <<>>
    /\ last_resolve = NoCall
    /\ net_resolved = EmptyTable
    /\ cache_order \in Orders(DOMAIN symbols_cache)
    /\ last_search = NoSearch

(***************************************************************************)
(* Tick aggregation.                                                       *)
(***************************************************************************)
\* deque.append on a deque with maxlen: a full deque drops its oldest item.
DequeAppendEvictsNewest(buf, t) ==
    IF Len(buf) >= TickBufferMaxLen
    THEN Append(SubSeq(buf, 1, Len(buf) - 1), t)
    ELSE Append(buf, t)

DequeAppend(buf, t) ==
    IF Len(buf) >= TickBufferMaxLen
    THEN Append(Tail(buf), t)
    ELSE Append(buf, t)

\* The record a price gets when it is first seen.
NewRecord ==
    [total_volume |-> 0, buy_volume |-> 0, sell_volume |-> 0, trade_count |-> 0]

\* aggregated_trades[price] after a first-seen price has been given NewRecord.
WithPrice(acc, p) ==
    IF p \in DOMAIN acc THEN acc ELSE acc @@ (p :> NewRecord)

\* main.py: the loop body of aggregate_ticks for one tick.
AddTickV1Unsided(acc, tick) ==
    LET a == WithPrice(acc, tick.price)
        r == a[tick.price]
    IN  [a EXCEPT ![tick.price] =
            [total_volume |-> r.total_volume + tick.quantity,
             trade_count  |-> r.trade_count + 1,
             buy_volume   |-> IF tick.side = "buy"
                              THEN r.buy_volume + tick.quantity
                              ELSE r.buy_volume,
             sell_volume  |-> IF tick.side = "sell"
                              THEN r.sell_volume + tick.quantity
                              ELSE r.sell_volume]]

AddTickV1(acc, tick) ==
    LET a == WithPrice(acc, tick.price)
        r == a[tick.price]
    IN  [a EXCEPT ![tick.price] =
            [total_volume |-> r.total_volume + tick.quantity,
             trade_count  |-> r.trade_count + 1,
             buy_volume   |-> IF tick.side = "buy"
                              THEN r.buy_volume + tick.quantity
                              ELSE r.buy_volume,
             sell_volume  |-> IF tick.side = "buy"
                              THEN r.sell_volume
                              ELSE r.sell_volume + tick.quantity]]

\* main_v2.py: the loop body of aggregate_ticks for one tick.
AddTickV2Merged(acc, tick) ==
    LET p == CHOOSE q \in Prices : \A q2 \in Prices : q <= q2
        a == WithPrice(acc, p)
        r == a[p]
    IN  [a EXCEPT ![p] =
            [total_volume |-> r.total_volume + tick.quantity,
             trade_count  |-> r.trade_count + 1,
             buy_volume   |-> r.buy_volume + (tick.quantity \div 2),
             sell_volume  |-> r.sell_volume
                                + (tick.quantity - (tick.quantity \div 2))]]

AddTickV2(acc, tick) ==
    LET a == WithPrice(acc, tick.price)
        r == a[tick.price]
    IN  [a EXCEPT ![tick.price] =
            [total_volume |-> r.total_volume + tick.quantity,
             trade_count  |-> r.trade_count + 1,
             buy_volume   |-> r.buy_volume + (tick.quantity \div 2),
             sell_volume  |-> r.sell_volume
                                + (tick.quantity - (tick.quantity \div 2))]]

\* The for loop over list(tick_buffer), starting from aggregated_trades = {}.
RECURSIVE AggregateFrom(_, _, _)
AggregateFrom(v, acc, ticks) ==
    IF ticks = <<>>
    THEN acc
    ELSE AggregateFrom(v,
                       IF v = "v1" THEN AddTickV1(acc, Head(ticks))
                                   ELSE AddTickV2(acc, Head(ticks)),
                       Tail(ticks))

EmptyDict == [p \in {} |-> NewRecord]

Aggregate(v, ticks) == AggregateFrom(v, EmptyDict, ticks)

NoFlush == [flushed |-> FALSE, input |-> <<>>, data |-> EmptyDict]

\* aggregate_ticks(): the outcome for a buffer `buf` at time `t`, as
\* [buffer, last, call] (the buffer and last_aggregation_time it leaves and
\* what the call produced).
AggregateTicksKeepsBuffer(v, buf, last, t) ==
    IF t - last < AggregationWindow
    THEN [buffer |-> buf, last |-> last, call |-> NoFlush]
    ELSE IF v = "v2" /\ buf = <<>>
    THEN [buffer |-> buf, last |-> last, call |-> NoFlush]
    ELSE [buffer |-> buf,
          last   |-> t,
          call   |-> [flushed |-> TRUE, input |-> buf, data |-> Aggregate(v, buf)]]

AggregateTicks(v, buf, last, t) ==
    IF t - last < AggregationWindow
    THEN [buffer |-> buf, last |-> last, call |-> NoFlush]
    ELSE IF v = "v2" /\ buf = <<>>
    THEN [buffer |-> buf, last |-> last, call |-> NoFlush]
    ELSE [buffer |-> <<>>,
          last   |-> t,
          call   |-> [flushed |-> TRUE, input |-> buf, data |-> Aggregate(v, buf)]]

\* main.py process_tick / main_v2.py handle_trade_update: append the tick,
\* then aggregate_ticks().
IngestTick(tick) ==
    LET r == AggregateTicks(variant, DequeAppend(tick_buffer, tick),
                            last_aggregation_time, now)
    IN  /\ tick_buffer' = r.buffer
        /\ last_aggregation_time' = r.last
        /\ last_call' = r.call
        /\ UNCHANGED <<variant, now>>

ProcessTick ==
    \E tick \in Ticks :
        variant = "v1" /\ IngestTick(tick) /\ UNCHANGED <<symVars, feedVars, hubVars>>

HandleTradeUpdate ==
    \E tick \in Ticks :
        variant = "v2" /\ IngestTick(tick) /\ UNCHANGED <<symVars, feedVars, hubVars>>

\* Most ticks that arrive between two flushes.
MaxSeq == 5

\* Ticks arrive whose quantities count up from 1 since the last flush: the
\* tick after the newest buffered one.
NumberedTicks ==
    LET next == IF tick_buffer = <<>> THEN 1
                ELSE tick_buffer[Len(tick_buffer)].quantity + 1
    IN  {t \in [price : Prices, quantity : {next}, side : Sides] : next <= MaxSeq}

\* process_tick / handle_trade_update for such a tick.
IngestNumbered ==
    \E tick \in NumberedTicks :
        IngestTick(tick) /\ UNCHANGED <<symVars, feedVars, hubVars>>

\* Longest buffer a directly called flush starts from.
MaxFlushLen == 2

\* The buffers a flush can find: any ticks in arrival order.
RECURSIVE TickSeqs(_)
TickSeqs(n) ==
    IF n = 0 THEN {<<>>}
    ELSE TickSeqs(n - 1) \cup
         {Append(b, t) : b \in {x \in TickSeqs(n - 1) : Len(x) = n - 1}, t \in Ticks}

\* A caller awaits aggregate_ticks() on the globals as they are.
AggregateCall ==
    LET r == AggregateTicks(variant, tick_buffer, last_aggregation_time, now)
    IN  /\ tick_buffer' = r.buffer
        /\ last_aggregation_time' = r.last
        /\ last_call' = r.call
        /\ UNCHANGED <<variant, now>>
        /\ UNCHANGED <<symVars, feedVars, hubVars>>

\* The wall clock advances.
AdvanceClock ==
    /\ now < MaxTime
    /\ now' = now + 1
    /\ UNCHANGED <<variant, tick_buffer, last_aggregation_time, last_call>>
    /\ UNCHANGED <<symVars, feedVars, hubVars>>

(***************************************************************************)
(* Upstream feed client (backend/main.py, DhanWebSocketClient).  connect() *)
(* and listen() are coroutines; each caller's position is feed_pc[t]:      *)
(*   "idle"       not called yet                                           *)
(*   "handshake"  in connect(), awaiting websockets.connect                *)
(*   "subscribe"  in connect(), at subscribe_market_depth()                *)
(*   "sleep"      in handle_reconnect(), awaiting asyncio.sleep            *)
(*   "recv"       in listen(), awaiting websocket.recv                     *)
(*   "returned"   the coroutine has returned                               *)
(***************************************************************************)
\* DhanWebSocketClient.max_reconnect_attempts.
MaxReconnectAttempts == 5
\* The cap of the reconnect wait, in seconds.
BackoffCap == 30

Tasks == {"connect", "listen"}

\* DEFAULT_SYMBOLS (three of its ten entries).
DefaultSymbols ==
    (RELIANCE :> [token |-> "2885633", name |-> RELIANCE])
    @@ (TCS :> [token |-> "2953217", name |-> TCS])
    @@ (ITC :> [token |-> "424961", name |-> ITC])

Min(a, b) == IF a <= b THEN a ELSE b

\* handle_reconnect: wait_time for the attempt counter's new value.
BackoffDelayUncapped(attempts) == 2 ^ attempts

BackoffDelay(attempts) == Min(2 ^ attempts, BackoffCap)

Client == [websocket |-> websocket, connected |-> connected,
           reconnect_attempts |-> reconnect_attempts]

\* Where caller t stands when its connect()/handle_reconnect() chain returns:
\* connect()'s caller is done, listen() is back at `while self.connected`.
ChainEndListens(t, conn) ==
    IF conn THEN "recv" ELSE "returned"

ChainEnd(t, conn) ==
    IF t = "listen" /\ conn THEN "recv" ELSE "returned"

NoSub == [outcome |-> "none"]

NoSubscribes == [prev |-> NoSub, last |-> NoSub]

NoMessage == [handler |-> "no message"]

NoError == [exc |-> "none"]

\* handle_reconnect() in caller t, entered with connected = False: another
\* attempt after a wait, or the log line "Max reconnection attempts reached".
HandleReconnect(t) ==
    IF reconnect_attempts < MaxReconnectAttempts
    THEN /\ backoff.run < MaxRun
         /\ reconnect_attempts' = reconnect_attempts + 1
         /\ feed_pc' = [feed_pc EXCEPT ![t] = "sleep"]
         /\ backoff' = [backoff EXCEPT
                          !.waits = Append(@, BackoffDelay(reconnect_attempts + 1)),
                          !.run = @ + 1]
    ELSE /\ reconnect_attempts' = reconnect_attempts
         /\ feed_pc' = [feed_pc EXCEPT ![t] = ChainEnd(t, FALSE)]
         /\ backoff' = [backoff EXCEPT !.exhausted = TRUE]

\* startup_event: asyncio.create_task(dhan_client.connect()).
StartConnect ==
    /\ UNCHANGED hubVars
    /\ feed_pc["connect"] = "idle"
    /\ feed_pc' = [feed_pc EXCEPT !["connect"] = "handshake"]
    /\ UNCHANGED <<current_symbol, clientVars, sent_upstream, backoff>>
    /\ last_message' = NoMessage
    /\ listen_error' = NoError
    /\ subscribes' = NoSubscribes
    /\ UNCHANGED <<aggVars, symVars>>

\* connect(): websockets.connect returned a transport.
HandshakeOk(t) ==
    /\ UNCHANGED hubVars
    /\ feed_pc[t] = "handshake"
    /\ websocket' = "open"
    /\ connected' = TRUE
    /\ reconnect_attempts' = 0
    /\ feed_pc' = [feed_pc EXCEPT ![t] = "subscribe"]
    /\ backoff' = [backoff EXCEPT !.waits = <<>>, !.exhausted = FALSE]
    /\ last_message' = NoMessage
    /\ listen_error' = NoError
    /\ subscribes' = NoSubscribes
    /\ UNCHANGED <<current_symbol, sent_upstream>>
    /\ UNCHANGED <<aggVars, symVars>>

\* connect(): websockets.connect raised.
HandshakeFail(t) ==
    /\ UNCHANGED hubVars
    /\ feed_pc[t] = "handshake"
    /\ connected' = FALSE
    /\ HandleReconnect(t)
    /\ last_message' = NoMessage
    /\ listen_error' = NoError
    /\ subscribes' = NoSubscribes
    /\ UNCHANGED <<current_symbol, websocket, sent_upstream>>
    /\ UNCHANGED <<aggVars, symVars>>

\* handle_reconnect(): asyncio.sleep(wait_time) is over, connect() is called.
Wake(t) ==
    /\ UNCHANGED hubVars
    /\ feed_pc[t] = "sleep"
    /\ feed_pc' = [feed_pc EXCEPT ![t] = "handshake"]
    /\ last_message' = NoMessage
    /\ listen_error' = NoError
    /\ subscribes' = NoSubscribes
    /\ UNCHANGED <<current_symbol, clientVars, sent_upstream, backoff>>
    /\ UNCHANGED <<aggVars, symVars>>

\* subscribe_market_depth() on a connected client: the symbol manager's
\* record, else the DEFAULT_SYMBOLS entry, else nothing is sent; the send
\* raises on a transport the peer has closed.  The call assigns no field of
\* the client.  st is the symbol manager's state at the call.
SubscribeMarketDepthGivesUp(st, client, symbol, env) ==
    LET r == GetSymbolInfo(st, symbol, env)
        info == IF r.result /= None THEN r.result
                ELSE IF symbol \in DOMAIN DefaultSymbols THEN DefaultSymbols[symbol]
                ELSE None
        failed == info /= None /\ client.websocket /= "open"
    IN  [resolve |-> r,
         resolved |-> r.result /= None,
         token   |-> IF info = None THEN "" ELSE info.token,
         outcome |-> IF info = None THEN "unknown_symbol"
                     ELSE IF failed THEN "send_failed" ELSE "sent",
         client  |-> IF failed THEN [client EXCEPT !.connected = FALSE] ELSE client]

SubscribeMarketDepthStartupSymbol(st, client, symbol, env) ==
    LET r == GetSymbolInfo(st, RELIANCE, env)
        info == IF r.result /= None THEN r.result ELSE DefaultSymbols[RELIANCE]
    IN  [resolve |-> r,
         resolved |-> r.result /= None,
         token   |-> info.token,
         outcome |-> IF client.websocket = "open" THEN "sent" ELSE "send_failed",
         client  |-> client]

SubscribeMarketDepth(st, client, symbol, env) ==
    LET r == GetSymbolInfo(st, symbol, env)
        info == IF r.result /= None THEN r.result
                ELSE IF symbol \in DOMAIN DefaultSymbols THEN DefaultSymbols[symbol]
                ELSE None
    IN  [resolve |-> r,
         resolved |-> r.result /= None,
         token   |-> IF info = None THEN "" ELSE info.token,
         outcome |-> IF info = None THEN "unknown_symbol"
                     ELSE IF client.websocket = "open" THEN "sent"
                     ELSE "send_failed",
         client  |-> client]

SubscribeMsg(token) ==
    [action |-> "subscribe", instrument_token |-> token,
     feed_type |-> "full_market_depth", segment |-> "NSE_EQ"]

\* The record of one subscribe_market_depth() call.
SubCall(sub) ==
    [outcome |-> sub.outcome, symbol |-> current_symbol, token |-> sub.token,
     resolved |-> sub.resolved, before |-> Client, after |-> sub.client]

\* connect(): subscribe_market_depth() right after the handshake.  A send
\* that raises lands in connect()'s except branch.
Subscribe(t) ==
    /\ UNCHANGED hubVars
    /\ feed_pc[t] = "subscribe"
    /\ last_message' = NoMessage
    /\ listen_error' = NoError
    /\ subscribes' = NoSubscribes
    /\ UNCHANGED <<current_symbol, websocket>>
    /\ UNCHANGED aggVars
    /\ IF ~connected
       THEN /\ feed_pc' = [feed_pc EXCEPT ![t] = ChainEnd(t, connected)]
            /\ UNCHANGED <<connected, reconnect_attempts, sent_upstream, backoff>>
            /\ UNCHANGED symVars
       ELSE \E env \in FeedResolveEnvs(Upper(current_symbol)) :
              LET sub == SubscribeMarketDepth(SymbolState, Client, current_symbol, env)
              IN  /\ Len(symbol_requests) < MaxRequests
                  /\ Resolved(current_symbol, env, sub.resolve)
                  /\ CASE sub.outcome = "sent" ->
                            /\ Len(sent_upstream) < MaxSent
                            /\ sent_upstream' = Append(sent_upstream, SubscribeMsg(sub.token))
                            /\ feed_pc' = [feed_pc EXCEPT ![t] = ChainEnd(t, connected)]
                            /\ backoff' = [backoff EXCEPT !.run = 0]
                            /\ UNCHANGED <<connected, reconnect_attempts>>
                       [] sub.outcome = "send_failed" ->
                            /\ connected' = FALSE
                            /\ HandleReconnect(t)
                            /\ UNCHANGED sent_upstream
                       [] OTHER ->
                            /\ feed_pc' = [feed_pc EXCEPT ![t] = ChainEnd(t, connected)]
                            /\ UNCHANGED <<connected, reconnect_attempts,
                                           sent_upstream, backoff>>

\* A viewer command handler awaits dhan_client.subscribe_market_depth().
Resubscribe ==
    /\ UNCHANGED hubVars
    /\ UNCHANGED <<current_symbol, feed_pc, backoff>>
    /\ last_message' = NoMessage
    /\ listen_error' = NoError
    /\ UNCHANGED aggVars
    /\ IF ~connected
       THEN /\ UNCHANGED clientVars
            /\ subscribes' = [prev |-> subscribes.last,
                              last |-> [outcome |-> "not_connected",
                                        symbol |-> current_symbol, token |-> "",
                                        resolved |-> FALSE,
                                        before |-> Client, after |-> Client]]
            /\ UNCHANGED sent_upstream
            /\ UNCHANGED symVars
       ELSE \E env \in FeedResolveEnvs(Upper(current_symbol)) :
              LET sub == SubscribeMarketDepth(SymbolState, Client, current_symbol, env)
              IN  /\ Len(symbol_requests) < MaxRequests
                  /\ Resolved(current_symbol, env, sub.resolve)
                  /\ subscribes' = [prev |-> subscribes.last, last |-> SubCall(sub)]
                  /\ websocket' = sub.client.websocket
                  /\ connected' = sub.client.connected
                  /\ reconnect_attempts' = sub.client.reconnect_attempts
                  /\ IF sub.outcome = "sent"
                     THEN /\ Len(sent_upstream) < MaxSent
                          /\ sent_upstream' = Append(sent_upstream, SubscribeMsg(sub.token))
                     ELSE UNCHANGED sent_upstream

\* asyncio.create_task(dhan_client.listen()): the loop is entered only when
\* the client is connected.
StartListen ==
    /\ UNCHANGED hubVars
    /\ feed_pc["listen"] = "idle"
    /\ feed_pc' = [feed_pc EXCEPT !["listen"] = ChainEnd("listen", connected)]
    /\ last_message' = NoMessage
    /\ listen_error' = NoError
    /\ subscribes' = NoSubscribes
    /\ UNCHANGED <<current_symbol, clientVars, sent_upstream, backoff>>
    /\ UNCHANGED <<aggVars, symVars>>

\* startup_event as the event loop runs it: create_task queues connect() and
\* then listen(); the loop runs the two first steps in that order.  connect()
\* runs to `await websockets.connect(...)`, which suspends for the network,
\* and listen() then reads `while self.connected` before any handshake can
\* have completed.
StartupEvent ==
    /\ UNCHANGED hubVars
    /\ feed_pc = [t \in Tasks |-> "idle"]
    /\ feed_pc' = [feed_pc EXCEPT !["connect"] = "handshake",
                                  !["listen"] = ChainEnd("listen", connected)]
    /\ last_message' = NoMessage
    /\ listen_error' = NoError
    /\ subscribes' = NoSubscribes
    /\ UNCHANGED <<current_symbol, clientVars, sent_upstream, backoff>>
    /\ UNCHANGED <<aggVars, symVars>>

\* Messages the feed delivers: text that is no JSON, JSON that is no object,
\* and envelopes with a type.
MessageTypes == {"market_depth", "tick", "quote", "error", "heartbeat"}

Messages ==
    {[decodes |-> FALSE, object |-> FALSE, type |-> ""],
     [decodes |-> TRUE, object |-> FALSE, type |-> ""]}
    \cup {[decodes |-> TRUE, object |-> TRUE, type |-> ty] : ty \in MessageTypes}

\* The tick a "tick" envelope carries.
FeedTick == [price |-> 100, quantity |-> 2, side |-> "unknown"]

\* process_message: the handler a message is dispatched to ("none" when it is
\* only logged) and the client it leaves.
ProcessMessageStrict(client, msg) ==
    IF ~msg.decodes \/ ~msg.object
    THEN [handler |-> "none",
          client |-> [client EXCEPT !.connected = FALSE, !.websocket = "closed"]]
    ELSE [handler |-> CASE msg.type = "market_depth" -> "process_market_depth"
                        [] msg.type = "tick" -> "process_tick"
                        [] msg.type = "quote" -> "process_quote"
                        [] OTHER -> "none",
          client |-> client]

ProcessMessage(client, msg) ==
    IF ~msg.decodes
    THEN [handler |-> "none", client |-> client]   \* except json.JSONDecodeError
    ELSE IF ~msg.object
    THEN [handler |-> "none", client |-> client]   \* data.get raises: except Exception
    ELSE [handler |-> CASE msg.type = "market_depth" -> "process_market_depth"
                        [] msg.type = "tick" -> "process_tick"
                        [] msg.type = "quote" -> "process_quote"
                        [] msg.type = "error" -> "none"
                        [] OTHER -> "none",
          client |-> client]

\* listen(): recv() returned a message; process_message and the handler it
\* dispatches to run, then the loop condition is read again.
Receive ==
    \E msg \in Messages :
        LET r == ProcessMessage(Client, msg)
        IN  /\ feed_pc["listen"] = "recv"
            /\ websocket = "open"
            /\ websocket' = r.client.websocket
            /\ connected' = r.client.connected
            /\ reconnect_attempts' = r.client.reconnect_attempts
            /\ feed_pc' = [feed_pc EXCEPT !["listen"] =
                              ChainEnd("listen", r.client.connected)]
            /\ last_message' = [kind |-> msg,
                                prev |-> IF last_message = NoMessage THEN "none"
                                         ELSE IF ~last_message.kind.decodes
                                         THEN "undecodable"
                                         ELSE "decoded",
                                handler |-> r.handler,
                                before |-> Client, after |-> r.client]
            /\ subscribes' = NoSubscribes
            /\ listen_error' = NoError
            /\ IF r.handler = "process_tick"
               THEN IngestTick(FeedTick)
               ELSE UNCHANGED aggVars
            /\ UNCHANGED <<current_symbol, sent_upstream, backoff>>
            /\ UNCHANGED <<symVars, hubVars>>

\* What websocket.recv() raises on a transport the peer has closed or that
\* broke: ConnectionClosedOK after a closing handshake, ConnectionClosedError
\* otherwise.
RecvErrors == {"ConnectionClosedOK", "ConnectionClosedError"}

\* The classes an exception is an instance of.
ExceptionBases(exc) ==
    IF exc \in RecvErrors
    THEN {exc, "ConnectionClosed", "WebSocketException", "Exception"}
    ELSE {exc, "Exception"}

\* The except clauses of listen(): ConnectionClosed marks the client
\* disconnected and calls handle_reconnect(); any other Exception is logged.
ListenExceptCleanOnly(client, exc) ==
    IF exc = "ConnectionClosedOK"
    THEN [client |-> [client EXCEPT !.connected = FALSE], reconnect |-> TRUE]
    ELSE [client |-> client, reconnect |-> FALSE]

ListenExcept(client, exc) ==
    IF "ConnectionClosed" \in ExceptionBases(exc)
    THEN [client |-> [client EXCEPT !.connected = FALSE], reconnect |-> TRUE]
    ELSE [client |-> client, reconnect |-> FALSE]

\* listen(): recv() raised.
RecvClosed ==
    \E exc \in RecvErrors :
      \E r \in {ListenExcept(Client, exc)} :
        /\ UNCHANGED hubVars
        /\ feed_pc["listen"] = "recv"
        /\ websocket = "closed"
        /\ listen_error' = [exc |-> exc, before |-> Client, after |-> r.client,
                            reconnect |-> r.reconnect]
        /\ IF r.reconnect
           THEN /\ connected' = r.client.connected
                /\ HandleReconnect("listen")
           ELSE UNCHANGED <<connected, reconnect_attempts, feed_pc, backoff>>
        /\ last_message' = NoMessage
        /\ subscribes' = NoSubscribes
        /\ UNCHANGED <<current_symbol, websocket, sent_upstream>>
        /\ UNCHANGED <<aggVars, symVars>>

\* The exchange closes the transport.
PeerClose ==
    /\ UNCHANGED hubVars
    /\ websocket = "open"
    /\ websocket' = "closed"
    /\ subscribes' = NoSubscribes
    /\ last_message' = NoMessage
    /\ listen_error' = NoError
    /\ UNCHANGED <<current_symbol, connected, reconnect_attempts, feed_pc,
                   sent_upstream, backoff>>
    /\ UNCHANGED <<aggVars, symVars>>

\* DhanWebSocketClient.__init__ and the globals it uses.
InitFeed ==
    /\ current_symbol = RELIANCE
    /\ websocket = "None"
    /\ connected = FALSE
    /\ reconnect_attempts = 0
    /\ feed_pc = [t \in Tasks |-> "idle"]
    /\ sent_upstream = <<>>
    /\ backoff = [waits |-> <<>>, run |-> 0, exhausted |-> FALSE]
    /\ last_message = NoMessage
    /\ listen_error = NoError
    /\ subscribes = NoSubscribes

NextFeed ==
    \/ StartConnect
    \/ StartListen
    \/ \E t \in Tasks : HandshakeOk(t)
    \/ \E t \in Tasks : HandshakeFail(t)
    \/ \E t \in Tasks : Wake(t)
    \/ \E t \in Tasks : Subscribe(t)
    \/ Resubscribe
    \/ Receive
    \/ RecvClosed
    \/ PeerClose

(***************************************************************************)
(* Symbol search (SymbolManager.search_symbols).                           *)
(***************************************************************************)
\* Largest limit a search is called with in the model.
MaxLimit == 2

\* The limits callers pass: the websocket handler and the HTTP endpoint hand
\* on any integer.
Limits == -1..MaxLimit

SOMETCSCO == <<"S", "O", "M", "E", "T", "C", "S", "C", "O">>

\* The queries callers pass.
Queries == {TCS, <<"t", "c", "s">>, <<"C">>, <<"T", "e", "c", "h">>}

\* Python's `sub in s` on strings.
Contains(sub, s) ==
    \E i \in 0..(Len(s) - Len(sub)) : SubSeq(s, i + 1, i + Len(sub)) = sub

\* The record search_symbols builds for a cache entry.
SearchRecord(symbol, info) ==
    [symbol |-> symbol, token |-> Get(info, "token", ""),
     name |-> Get(info, "name", <<>>), sector |-> Get(info, "sector", <<>>),
     market_cap |-> Get(info, "market_cap", "")]

\* The test of the loop over symbols_cache.items(): query in the symbol, the
\* upper-cased name or the upper-cased sector.
SearchMatches(query, symbol, info) ==
    \/ Contains(query, symbol)
    \/ Contains(query, Upper(Get(info, "name", <<>>)))
    \/ Contains(query, Upper(Get(info, "sector", <<>>)))

\* The sort key of a result record.
SearchRank(query, x) ==
    IF query = x.symbol THEN 0
    ELSE IF Contains(query, x.symbol) THEN 1
    ELSE IF Contains(query, Upper(x.name)) THEN 2
    ELSE 3

\* The matching records, in dict order.
RECURSIVE SearchLoop(_, _, _)
SearchLoop(query, cache, order) ==
    IF order = <<>> THEN <<>>
    ELSE LET symbol == Head(order)
             rest == SearchLoop(query, cache, Tail(order))
         IN  IF SearchMatches(query, symbol, cache[symbol])
             THEN <<SearchRecord(symbol, cache[symbol])>> \o rest
             ELSE rest

RankedAt(query, results, k) ==
    SelectSeq(results, LAMBDA x : SearchRank(query, x) = k)

\* results.sort(key=...): list.sort is stable.
SortByRankSkipped(query, results) == results

SortByRank(query, results) ==
    RankedAt(query, results, 0) \o RankedAt(query, results, 1)
    \o RankedAt(query, results, 2) \o RankedAt(query, results, 3)

\* results[:limit]: a negative limit counts from the end.
SliceTo(results, limit) ==
    IF limit >= 0
    THEN SubSeq(results, 1, Min(limit, Len(results)))
    ELSE SubSeq(results, 1, IF Len(results) + limit >= 0
                            THEN Len(results) + limit ELSE 0)

\* search_symbols(query, limit) over the cache in dict order.
SearchSymbols(cache, order, query, limit) ==
    SliceTo(SortByRank(Upper(query), SearchLoop(Upper(query), cache, order)), limit)

\* A caller awaits symbol_manager.search_symbols(query, limit).
SearchCall ==
    \E query \in Queries, limit \in Limits :
        /\ last_search' = [query |-> query, limit |-> limit,
                           cache |-> symbols_cache, order |-> cache_order,
                           results |-> SearchSymbols(symbols_cache, cache_order,
                                                     query, limit)]
        /\ UNCHANGED <<symbols_cache, db_symbols, symbol_requests, last_resolve,
                       net_resolved, cache_order>>
        /\ UNCHANGED <<aggVars, feedVars, hubVars>>

\* Tables a process can find in data/symbols.db: rows earlier runs cached
\* from the quote APIs and from the primary lookup.
SearchRows ==
    (TCS :> StoredRow(TCS, TRUE))
    @@ (ITC :> [StoredRow(ITC, TRUE) EXCEPT !.name = SOMETCSCO])
    @@ (AAPL :> SymbolRow(AAPL, MockSymbols[AAPL]))

SearchTables == {[symbol \in keys |-> SearchRows[symbol]] : keys \in SUBSET DOMAIN SearchRows}

\* SymbolManager.__init__ on one of those tables.
InitSearchSymbols ==
    /\ db_symbols \in SearchTables
    /\ symbols_cache = LoadCachedSymbols(db_symbols)
    /\ symbol_requests = <<>>
    /\ last_resolve = NoCall
    /\ net_resolved = EmptyTable
    /\ cache_order \in Orders(DOMAIN symbols_cache)
    /\ last_search = NoSearch

(***************************************************************************)
(* Broadcast hub and viewer sessions (broadcast_to_clients and             *)
(* websocket_endpoint in backend/main.py and backend/main_v2.py).  A       *)
(* session's handler is at viewers[s].pc:                                  *)
(*   "none"     no connection yet                                          *)
(*   "receive"  in the command loop, awaiting websocket.receive_text       *)
(*   "ended"    the handler has ended                                      *)
(* viewers[s].peer says whether the viewer's socket still takes messages.  *)
(***************************************************************************)
Sessions == {"s1", "s2", "s3"}

NoViewer == [pc |-> "none", is_market_hours |-> FALSE, peer |-> "none"]

EndedViewer == [pc |-> "ended", is_market_hours |-> FALSE, peer |-> "gone"]

NoBroadcast == [raised |-> "no call"]

NoCommand == [session |-> "no command"]

\* The names broadcast_to_clients binds in its body (assignments, the
\* augmented assignment of its last line, the for target, the except target)
\* and the names it declares global (none).
BroadcastAssignedNames ==
    {"message_str", "disconnected_clients", "client", "e", "connected_clients"}

BroadcastGlobalNames == {}

\* Python's scoping: a name a function binds and does not declare global is a
\* local of that function at every line of it.
IsLocalName(name) == name \in BroadcastAssignedNames \ BroadcastGlobalNames

\* broadcast_to_clients(message) over the registered sessions `clients`, of
\* which those in `failing` raise in send_text: what the call raises, the
\* sessions the message was sent to, and the registered set it leaves.  The
\* first line reads connected_clients; read as an unbound local it raises.
BroadcastToClients(clients, failing) ==
    IF IsLocalName("connected_clients")
    THEN [raised |-> "UnboundLocalError", delivered |-> {},
          connected_clients |-> clients]
    ELSE IF clients = {}
    THEN [raised |-> "none", delivered |-> {}, connected_clients |-> clients]
    ELSE [raised |-> "none", delivered |-> clients \ failing,
          connected_clients |-> clients \ failing]

\* A caller (aggregate_ticks, a depth or ticker update, the /off-market
\* endpoint) awaits broadcast_to_clients(message).
Broadcast ==
    LET failing == {s \in connected_clients : viewers[s].peer = "gone"}
        r == BroadcastToClients(connected_clients, failing)
    IN  /\ connected_clients' = r.connected_clients
        /\ last_broadcast' = [sessions |-> connected_clients, failing |-> failing,
                              raised |-> r.raised, delivered |-> r.delivered,
                              after |-> r.connected_clients]
        /\ last_command' = NoCommand
        /\ UNCHANGED <<viewers, dhan_manager, market_open, market_feed>>
        /\ UNCHANGED <<aggVars, symVars, feedVars>>

\* websocket_endpoint up to the command loop: accept, register, send
\* market_status (and the historical snapshot when the market is closed).
\* The market_status send is outside every try: when it raises, the handler
\* ends and the session stays registered.
ViewerConnect(s) ==
    /\ viewers[s].pc = "none"
    /\ connected_clients' = connected_clients \cup {s}
    /\ \E peer \in {"open", "gone"} :
          viewers' = [viewers EXCEPT ![s] =
                         IF peer = "open"
                         THEN [pc |-> "receive", is_market_hours |-> market_open,
                               peer |-> "open"]
                         ELSE EndedViewer]
    /\ last_broadcast' = NoBroadcast
    /\ last_command' = NoCommand
    /\ UNCHANGED <<dhan_manager, market_open, market_feed>>
    /\ UNCHANGED <<aggVars, symVars, feedVars>>

\* The viewer's socket goes away.
ViewerGone(s) ==
    /\ viewers[s].pc = "receive"
    /\ viewers[s].peer = "open"
    /\ viewers' = [viewers EXCEPT ![s].peer = "gone"]
    /\ last_broadcast' = NoBroadcast
    /\ last_command' = NoCommand
    /\ UNCHANGED <<connected_clients, dhan_manager, market_open, market_feed>>
    /\ UNCHANGED <<aggVars, symVars, feedVars>>

\* receive_text raises WebSocketDisconnect: the session is discarded.
ViewerDisconnect(s) ==
    /\ viewers[s].pc = "receive"
    /\ viewers[s].peer = "gone"
    /\ viewers' = [viewers EXCEPT ![s] = EndedViewer]
    /\ connected_clients' = connected_clients \ {s}
    /\ last_broadcast' = NoBroadcast
    /\ last_command' = NoCommand
    /\ UNCHANGED <<dhan_manager, market_open, market_feed>>
    /\ UNCHANGED <<aggVars, symVars, feedVars>>

\* The symbols viewers ask for.
CommandSymbols == {TCS, <<"t", "c", "s">>}

\* Messages a viewer sends: text that is no JSON object, and envelopes.
Commands ==
    [type : {"undecodable", "ping", "change_timeframe", "search_symbols", "other"}]
    \cup [type : {"change_symbol"}, symbol : CommandSymbols]

\* The quote APIs while a command is handled: DhanHQ knows the symbol or
\* not, the NSE API does not answer, sqlite works.
RelayResolveEnvs(symbol) ==
    [dhanhq : {None, [token |-> "2953217", name |-> symbol, sector |-> <<>>,
                      market_cap |-> ""]},
     nse : {None}, db_ok : {TRUE}]

\* What the handler of cmd meets, as far as it looks: the quote APIs,
\* whether get_off_market_data returns an error dict, whether the SDK's
\* subscribe_symbol raises.
CommandEnvs(cmd) ==
    IF cmd.type = "change_symbol"
    THEN [resolve : RelayResolveEnvs(Upper(cmd.symbol)), historical_error : BOOLEAN,
          sdk_raises : BOOLEAN]
    ELSE IF cmd.type = "change_timeframe"
    THEN [resolve : {None}, historical_error : BOOLEAN, sdk_raises : {FALSE}]
    ELSE [resolve : {None}, historical_error : {FALSE}, sdk_raises : {FALSE}]

Reply(type, data_mode) == [type |-> type, data_mode |-> data_mode]

\* The off_market_data message, sent unless the dict has the key "error".
HistoricalReplies(env) ==
    IF env.historical_error THEN <<>> ELSE <<Reply("off_market_data", "")>>

\* A handler's outcome: the replies sent to the viewer, whether an exception
\* left the command loop, the symbol manager's state, current_symbol, the
\* get_symbol_info calls made, the subscribe_market_depth call made (or
\* NoSub) and the messages it sent upstream.
Handled(replies, raised, st, symbol, calls, sub, sent) ==
    [replies |-> replies, raised |-> raised, st |-> st, current_symbol |-> symbol,
     calls |-> calls, sub |-> sub, sent |-> sent]

Call(arg, env, r) == [arg |-> arg, env |-> env, r |-> r]

\* change_symbol that makes the requested symbol the active one before it
\* is resolved.
ChangeSymbolV1AssignsFirst(st, client, cur, is_market_hours, new_symbol, env) ==
    LET r == GetSymbolInfo(st, new_symbol, env.resolve)
        first == <<Call(new_symbol, env.resolve, r)>>
        accepted == r.result /= None \/ new_symbol \in DOMAIN DefaultSymbols
        sub == SubscribeMarketDepth(r.st, client, new_symbol, env.resolve)
        second == <<Call(new_symbol, env.resolve, sub.resolve)>>
    IN  IF ~accepted
        THEN Handled(<<Reply("symbol_error", "")>>, FALSE, r.st, new_symbol, first,
                     NoSub, <<>>)
        ELSE IF ~is_market_hours
        THEN Handled(HistoricalReplies(env) \o <<Reply("symbol_changed", "historical")>>,
                     FALSE, r.st, new_symbol, first, NoSub, <<>>)
        ELSE IF ~client.connected
        THEN Handled(<<Reply("symbol_changed", "live")>>, FALSE, r.st, new_symbol,
                     first,
                     [outcome |-> "not_connected", symbol |-> new_symbol,
                      token |-> "", resolved |-> FALSE,
                      before |-> client, after |-> client],
                     <<>>)
        ELSE LET call == [outcome |-> sub.outcome, symbol |-> new_symbol,
                          token |-> sub.token, resolved |-> sub.resolved,
                          before |-> client, after |-> sub.client]
             IN  IF sub.outcome = "send_failed"
                 THEN Handled(<<>>, TRUE, sub.resolve.st, new_symbol,
                              first \o second, call, <<>>)
                 ELSE Handled(<<Reply("symbol_changed", "live")>>, FALSE,
                              sub.resolve.st, new_symbol, first \o second, call,
                              IF sub.outcome = "sent"
                              THEN <<SubscribeMsg(sub.token)>> ELSE <<>>)

\* main.py, `if data.get("type") == "change_symbol"`.
ChangeSymbolV1(st, client, cur, is_market_hours, new_symbol, env) ==
    LET r == GetSymbolInfo(st, new_symbol, env.resolve)
        first == <<Call(new_symbol, env.resolve, r)>>
        accepted == r.result /= None \/ new_symbol \in DOMAIN DefaultSymbols
        sub == SubscribeMarketDepth(r.st, client, new_symbol, env.resolve)
        second == <<Call(new_symbol, env.resolve, sub.resolve)>>
    IN  IF ~accepted
        THEN Handled(<<Reply("symbol_error", "")>>, FALSE, r.st, cur, first,
                     NoSub, <<>>)
        ELSE IF ~is_market_hours
        THEN Handled(HistoricalReplies(env) \o <<Reply("symbol_changed", "historical")>>,
                     FALSE, r.st, new_symbol, first, NoSub, <<>>)
        ELSE IF ~client.connected
        THEN Handled(<<Reply("symbol_changed", "live")>>, FALSE, r.st, new_symbol,
                     first,
                     [outcome |-> "not_connected", symbol |-> new_symbol,
                      token |-> "", resolved |-> FALSE,
                      before |-> client, after |-> client],
                     <<>>)
        ELSE LET call == [outcome |-> sub.outcome, symbol |-> new_symbol,
                          token |-> sub.token, resolved |-> sub.resolved,
                          before |-> client, after |-> sub.client]
             IN  IF sub.outcome = "send_failed"
                 THEN Handled(<<>>, TRUE, sub.resolve.st, new_symbol,
                              first \o second, call, <<>>)
                 ELSE Handled(<<Reply("symbol_changed", "live")>>, FALSE,
                              sub.resolve.st, new_symbol, first \o second, call,
                              IF sub.outcome = "sent"
                              THEN <<SubscribeMsg(sub.token)>> ELSE <<>>)

\* main_v2.py, `if data.get('type') == 'change_symbol'` (no Supabase
\* manager: supabase_manager is None).
ChangeSymbolV2(st, cur, is_market_hours, manager, symbol, env) ==
    LET new_symbol == Upper(symbol)
        r == GetSymbolInfo(st, new_symbol, env.resolve)
        first == <<Call(new_symbol, env.resolve, r)>>
    IN  IF r.result = None
        THEN Handled(<<Reply("symbol_error", "")>>, FALSE, r.st, cur, first,
                     NoSub, <<>>)
        ELSE IF is_market_hours /\ manager /= "None"
        THEN Handled(IF env.sdk_raises
                     THEN <<Reply("symbol_error", "")>>
                     ELSE <<Reply("symbol_changed", "live")>>,
                     FALSE, r.st, new_symbol, first, NoSub, <<>>)
        ELSE Handled(HistoricalReplies(env) \o <<Reply("symbol_changed", "historical")>>,
                     FALSE, r.st, new_symbol, first, NoSub, <<>>)

\* One pass of the command loop of websocket_endpoint for message cmd.
HandleCommandPingResets(v, st, client, cur, is_market_hours, manager, cmd, env) ==
    CASE cmd.type = "undecodable" ->
            Handled(<<>>, TRUE, st, cur, <<>>, NoSub, <<>>)
      [] cmd.type = "ping" ->
            Handled(<<Reply("pong", "")>>, FALSE, st, RELIANCE, <<>>, NoSub, <<>>)
      [] cmd.type = "change_symbol" ->
            IF v = "v1"
            THEN ChangeSymbolV1(st, client, cur, is_market_hours, cmd.symbol, env)
            ELSE ChangeSymbolV2(st, cur, is_market_hours, manager, cmd.symbol, env)
      [] cmd.type = "change_timeframe" ->
            Handled(IF is_market_hours THEN <<>> ELSE HistoricalReplies(env),
                    FALSE, st, cur, <<>>, NoSub, <<>>)
      [] cmd.type = "search_symbols" ->
            Handled(<<Reply("symbol_search_results", "")>>, FALSE, st, cur, <<>>,
                    NoSub, <<>>)
      [] OTHER ->
            Handled(<<>>, FALSE, st, cur, <<>>, NoSub, <<>>)

\* A command loop that skips a message it cannot decode.
HandleCommandSkipsUndecodable(v, st, client, cur, is_market_hours, manager, cmd, env) ==
    CASE cmd.type = "undecodable" ->
            Handled(<<>>, FALSE, st, cur, <<>>, NoSub, <<>>)
      [] cmd.type = "ping" ->
            Handled(<<Reply("pong", "")>>, FALSE, st, cur, <<>>, NoSub, <<>>)
      [] cmd.type = "change_symbol" ->
            IF v = "v1"
            THEN ChangeSymbolV1(st, client, cur, is_market_hours, cmd.symbol, env)
            ELSE ChangeSymbolV2(st, cur, is_market_hours, manager, cmd.symbol, env)
      [] cmd.type = "change_timeframe" ->
            Handled(IF is_market_hours THEN <<>> ELSE HistoricalReplies(env),
                    FALSE, st, cur, <<>>, NoSub, <<>>)
      [] cmd.type = "search_symbols" ->
            Handled(<<Reply("symbol_search_results", "")>>, FALSE, st, cur, <<>>,
                    NoSub, <<>>)
      [] OTHER ->
            Handled(<<>>, FALSE, st, cur, <<>>, NoSub, <<>>)

HandleCommand(v, st, client, cur, is_market_hours, manager, cmd, env) ==
    CASE cmd.type = "undecodable" ->
            Handled(<<>>, TRUE, st, cur, <<>>, NoSub, <<>>)
      [] cmd.type = "ping" ->
            Handled(<<Reply("pong", "")>>, FALSE, st, cur, <<>>, NoSub, <<>>)
      [] cmd.type = "change_symbol" ->
            IF v = "v1"
            THEN ChangeSymbolV1(st, client, cur, is_market_hours, cmd.symbol, env)
            ELSE ChangeSymbolV2(st, cur, is_market_hours, manager, cmd.symbol, env)
      [] cmd.type = "change_timeframe" ->
            Handled(IF is_market_hours THEN <<>> ELSE HistoricalReplies(env),
                    FALSE, st, cur, <<>>, NoSub, <<>>)
      [] cmd.type = "search_symbols" ->
            Handled(<<Reply("symbol_search_results", "")>>, FALSE, st, cur, <<>>,
                    NoSub, <<>>)
      [] OTHER ->
            Handled(<<>>, FALSE, st, cur, <<>>, NoSub, <<>>)

\* net_resolved after a handler's get_symbol_info calls.
RECURSIVE NetAfterCalls(_, _)
NetAfterCalls(calls, net) ==
    IF calls = <<>> THEN net
    ELSE NetAfterCalls(Tail(calls), NetResolved(Head(calls).arg, Head(calls).r, net))

\* last_resolve after a handler's get_symbol_info calls.
LogAfterCalls(calls, log, net) ==
    IF calls = <<>> THEN log
    ELSE LET c == calls[Len(calls)]
         IN  ResolveLog(c.arg, c.env, c.r,
                        NetAfterCalls(SubSeq(calls, 1, Len(calls) - 1), net))

\* The command loop of session s receives a message and handles it.  An
\* exception other than WebSocketDisconnect ends the handler and discards
\* the session.
ViewerCommand(s) ==
    /\ viewers[s].pc = "receive"
    /\ viewers[s].peer = "open"
    /\ \E cmd \in Commands :
       \E env \in CommandEnvs(cmd) :
       \E h \in {HandleCommand(variant, SymbolState, Client, current_symbol,
                                viewers[s].is_market_hours, dhan_manager, cmd, env)} :
              /\ Len(h.st.requests) <= MaxRequests
              /\ Len(sent_upstream) + Len(h.sent) <= MaxSent
              /\ symbols_cache' = h.st.cache
              /\ db_symbols' = h.st.db
              /\ symbol_requests' = h.st.requests
              /\ last_resolve' = LogAfterCalls(h.calls, last_resolve, net_resolved)
              /\ net_resolved' = NetAfterCalls(h.calls, net_resolved)
              /\ cache_order' = OrderAfter(cache_order, h.st.cache)
              /\ last_search' = last_search
              /\ current_symbol' = h.current_symbol
              /\ sent_upstream' = sent_upstream \o h.sent
              /\ subscribes' = IF h.sub = NoSub THEN subscribes
                               ELSE [prev |-> subscribes.last, last |-> h.sub]
              /\ viewers' = IF h.raised THEN [viewers EXCEPT ![s] = EndedViewer]
                            ELSE viewers
              /\ connected_clients' = IF h.raised THEN connected_clients \ {s}
                                      ELSE connected_clients
              /\ last_command' = [session |-> s, command |-> cmd,
                                  replies |-> h.replies, raised |-> h.raised]
    /\ last_broadcast' = NoBroadcast
    /\ UNCHANGED <<clientVars, feed_pc, backoff, last_message, listen_error>>
    /\ UNCHANGED <<dhan_manager, market_open, market_feed>>
    /\ UNCHANGED aggVars

\* The wall clock passes 09:15 or 15:30 of a trading day: what
\* is_market_hours() returns changes.
MarketTurns ==
    /\ market_open' = ~market_open
    /\ last_broadcast' = NoBroadcast
    /\ last_command' = NoCommand
    /\ UNCHANGED <<connected_clients, viewers, dhan_manager, market_feed>>
    /\ UNCHANGED <<aggVars, symVars, feedVars>>

(***************************************************************************)
(* The SDK feed of main_v2.py (backend/dhan_integration.py): the           *)
(* DhanMarketFeed instance of the DhanMarketDataManager, the threads its   *)
(* _start_depth_feed and _start_ticker_feed start, and the callbacks the   *)
(* threads call.  A thread is at                                           *)
(*   "test"     its `while not self.stop_flag.is_set() and self.<feed>`    *)
(*   "blocked"  inside run_forever() / get_data() of the SDK               *)
(*   "exited"   its loop has ended ("stopped": the test failed, "error":   *)
(*              the inner except branch took the break)                    *)
(***************************************************************************)
\* Largest number of subscribe_symbol calls in the model.
MaxSubscribes == 2
\* Largest number of updates the feed threads hand to the callbacks.
MaxUpdates == 2

\* The security ids callers subscribe: tokens of symbol records.
SecurityIds == {"2885633", "2953217"}

FeedKinds == {"depth", "ticker"}

\* DhanMarketFeed.__init__ and DhanMarketDataManager.__init__; startup_event
\* has registered its three handlers.
NewMarketFeed ==
    [stop_flag |-> FALSE, is_connected |-> FALSE,
     depth_feed |-> "None", ticker_feed |-> "None",
     current_security_id |-> "None", subscriptions |-> 0,
     threads |-> <<>>, errors |-> 0,
     handed |-> 0, executed |-> 0, dropped |-> 0]

\* DhanMarketFeed.unsubscribe: the stop flag is set (nothing clears it).
FeedUnsubscribe(mf) ==
    [mf EXCEPT !.stop_flag = TRUE, !.is_connected = FALSE,
               !.ticker_feed = "None", !.depth_feed = "None"]

FeedThread(kind, mf) ==
    [kind |-> kind, subscription |-> mf.subscriptions, pc |-> "test",
     cause |-> "none"]

\* DhanMarketFeed.subscribe_market_depth: FullDepth(...) built, is_connected
\* set, the thread started; an exception goes to the error callback.
FeedSubscribeMarketDepth(mf, ok) ==
    IF ok
    THEN [mf EXCEPT !.depth_feed = "feed", !.is_connected = TRUE,
                    !.threads = Append(@, FeedThread("depth", mf))]
    ELSE [mf EXCEPT !.errors = @ + 1]

\* DhanMarketFeed.subscribe_ticker, likewise with MarketFeed(...).
FeedSubscribeTicker(mf, ok) ==
    IF ok
    THEN [mf EXCEPT !.ticker_feed = "feed", !.is_connected = TRUE,
                    !.threads = Append(@, FeedThread("ticker", mf))]
    ELSE [mf EXCEPT !.errors = @ + 1]

\* DhanMarketDataManager.subscribe_symbol: unsubscribe the previous symbol,
\* then subscribe depth and ticker for the new one.
ManagerSubscribeSymbol(mf, security_id, env) ==
    LET a == IF mf.current_security_id /= "None" THEN FeedUnsubscribe(mf) ELSE mf
        b == [a EXCEPT !.current_security_id = security_id,
                       !.subscriptions = @ + 1]
    IN  FeedSubscribeTicker(FeedSubscribeMarketDepth(b, env.depth_ok), env.ticker_ok)

\* startup_event or a change_symbol handler calls
\* dhan_manager.subscribe_symbol(security_id, ...).
SubscribeSymbol ==
    \E security_id \in SecurityIds, env \in [depth_ok : BOOLEAN, ticker_ok : BOOLEAN] :
        /\ market_feed.subscriptions < MaxSubscribes
        /\ market_feed' = ManagerSubscribeSymbol(market_feed, security_id, env)
        /\ UNCHANGED <<connected_clients, viewers, dhan_manager, market_open,
                       last_broadcast, last_command>>
        /\ UNCHANGED <<aggVars, symVars, feedVars>>

\* The feed attribute a thread of this kind reads.
FeedOf(mf, kind) == IF kind = "depth" THEN mf.depth_feed ELSE mf.ticker_feed

\* The loop condition of run_depth / run_ticker.
LoopCondition(mf, kind) == ~mf.stop_flag /\ FeedOf(mf, kind) /= "None"

\* A thread evaluates its loop condition.
LoopTest(i) ==
    /\ i \in DOMAIN market_feed.threads
    /\ market_feed.threads[i].pc = "test"
    /\ market_feed' =
          [market_feed EXCEPT !.threads[i] =
              IF LoopCondition(market_feed, market_feed.threads[i].kind)
              THEN [@ EXCEPT !.pc = "blocked"]
              ELSE [@ EXCEPT !.pc = "exited", !.cause = "stopped"]]
    /\ UNCHANGED <<connected_clients, viewers, dhan_manager, market_open,
                   last_broadcast, last_command>>
    /\ UNCHANGED <<aggVars, symVars, feedVars>>

\* The handlers startup_event registers with the manager, and what each is.
RegisteredHandlers ==
    [depth |-> "coroutine function", ticker |-> "coroutine function",
     trade |-> "coroutine function"]

\* callback(data) written as a plain call, its value discarded: a function's
\* body runs; a coroutine function only returns a coroutine object, which
\* nothing awaits or hands to the event loop.
PlainCall(callable) ==
    IF callable = "coroutine function" THEN "dropped" ELSE "executed"

\* The data get_data() can return to a thread: nothing, a depth packet, a
\* ticker packet without or with last_trade_price and last_trade_qty.
FeedData(kind) ==
    IF kind = "depth" THEN {"empty", "depth"}
    ELSE {"empty", "quote", "quote_with_trade"}

\* The handlers _handle_depth_update / _handle_ticker_update call for a
\* packet, in order.
HandlersFor(data) ==
    CASE data = "depth" -> <<"depth">>
      [] data = "quote" -> <<"ticker">>
      [] data = "quote_with_trade" -> <<"ticker", "trade">>
      [] OTHER -> <<>>

\* The counters after the manager has called the handlers of a packet.
RECURSIVE AfterCalls(_, _)
AfterCalls(mf, handlers) ==
    IF handlers = <<>> THEN mf
    ELSE LET o == PlainCall(RegisteredHandlers[Head(handlers)])
         IN  AfterCalls([mf EXCEPT !.handed = @ + 1,
                                   !.executed = IF o = "executed" THEN @ + 1 ELSE @,
                                   !.dropped = IF o = "dropped" THEN @ + 1 ELSE @],
                        Tail(handlers))

\* The inner except branch of run_depth / run_ticker: the error goes to the
\* error callback and the loop is left by break.
LoopExcept(mf, i) ==
    [mf EXCEPT !.errors = @ + 1,
               !.threads[i] = [@ EXCEPT !.pc = "exited", !.cause = "error"]]

\* run_forever() and get_data() return a packet to a thread, which calls the
\* feed's callback with it when it is not empty.
Deliver(i) ==
    /\ i \in DOMAIN market_feed.threads
    /\ market_feed.threads[i].pc = "blocked"
    /\ FeedOf(market_feed, market_feed.threads[i].kind) /= "None"
    /\ \E data \in FeedData(market_feed.threads[i].kind) :
          /\ market_feed.handed + Len(HandlersFor(data)) <= MaxUpdates
          /\ market_feed' =
                [AfterCalls(market_feed, HandlersFor(data))
                    EXCEPT !.threads[i] = [@ EXCEPT !.pc = "test"]]
    /\ UNCHANGED <<connected_clients, viewers, dhan_manager, market_open,
                   last_broadcast, last_command>>
    /\ UNCHANGED <<aggVars, symVars, feedVars>>

\* run_forever() or get_data() raises in a thread (get_data on a feed
\* attribute that unsubscribe() has set to None included).
LoopError(i) ==
    /\ i \in DOMAIN market_feed.threads
    /\ market_feed.threads[i].pc = "blocked"
    /\ market_feed' = LoopExcept(market_feed, i)
    /\ UNCHANGED <<connected_clients, viewers, dhan_manager, market_open,
                   last_broadcast, last_command>>
    /\ UNCHANGED <<aggVars, symVars, feedVars>>

FeedThreadIds == 1..(2 * MaxSubscribes)

\* No viewer has connected and no SDK manager exists.
InitHubIdle ==
    /\ connected_clients = {}
    /\ viewers = [s \in Sessions |-> NoViewer]
    /\ dhan_manager = "None"
    /\ market_open = FALSE
    /\ market_feed = NewMarketFeed
    /\ last_broadcast = NoBroadcast
    /\ last_command = NoCommand

\* The relay after startup_event: no viewer yet; main_v2.py has its SDK
\* manager unless get_dhan_manager() raised.
InitHub ==
    /\ connected_clients = {}
    /\ viewers = [s \in Sessions |-> NoViewer]
    /\ dhan_manager \in (IF variant = "v2" THEN {"None", "manager"} ELSE {"None"})
    /\ market_open \in BOOLEAN
    /\ market_feed = NewMarketFeed
    /\ last_broadcast = NoBroadcast
    /\ last_command = NoCommand

NextRelay ==
    \/ \E s \in Sessions : ViewerConnect(s)
    \/ \E s \in Sessions : ViewerGone(s)
    \/ \E s \in Sessions : ViewerDisconnect(s)
    \/ \E s \in Sessions : ViewerCommand(s)
    \/ Broadcast

InitAgg ==
    /\ variant \in Variants
    /\ now = 0
    /\ tick_buffer = <<>>
    /\ last_aggregation_time = 0
    /\ last_call = NoFlush
    /\ InitSymbolsFresh
    /\ InitFeed
    /\ InitHubIdle

NextAgg ==
    \/ ProcessTick
    \/ HandleTradeUpdate
    \/ AdvanceClock

SpecAgg == InitAgg /\ [][NextAgg]_vars

\* The symbol manager on its own: the process has started and callers resolve
\* symbols.
InitAggIdle ==
    /\ variant = "v1"
    /\ now = 0
    /\ tick_buffer = <<>>
    /\ last_aggregation_time = 0
    /\ last_call = NoFlush

InitSym == InitAggIdle /\ InitSymbols /\ InitFeed /\ InitHubIdle

NextSym == ResolveSymbol

SpecSym == InitSym /\ [][NextSym]_vars

\* The feed client: its coroutines, the exchange and the viewers' resubscribe
\* requests.
InitFeedClient == InitAggIdle /\ InitSymbolsFresh /\ InitFeed /\ InitHubIdle

SpecFeed == InitFeedClient /\ [][NextFeed]_vars

\* The feed client from startup_event on, its two tasks scheduled as the
\* event loop schedules them.  Receive and RecvClosed, the steps of a task at
\* websocket.recv(), are enabled in none of its states.
NextStartup ==
    \/ StartupEvent
    \/ HandshakeOk("connect")
    \/ HandshakeFail("connect")
    \/ Wake("connect")
    \/ Subscribe("connect")
    \/ PeerClose

SpecStartup == InitFeedClient /\ [][NextStartup]_vars

\* The SDK feed of main_v2.py: callers subscribe symbols, the feed threads
\* run.
InitSdk ==
    /\ variant = "v2"
    /\ now = 0
    /\ tick_buffer = <<>>
    /\ last_aggregation_time = 0
    /\ last_call = NoFlush
    /\ InitSymbolsFresh
    /\ InitFeed
    /\ InitHubIdle

NextSdk ==
    \/ SubscribeSymbol
    \/ \E i \in FeedThreadIds : LoopTest(i)
    \/ \E i \in FeedThreadIds : Deliver(i)
    \/ \E i \in FeedThreadIds : LoopError(i)

SpecSdk == InitSdk /\ [][NextSdk]_vars

\* aggregate_ticks() called on any buffer at any time since the last flush.
InitFlush ==
    /\ variant \in Variants
    /\ tick_buffer \in TickSeqs(MaxFlushLen)
    /\ last_aggregation_time \in 0..MaxTime
    /\ now \in last_aggregation_time..MaxTime
    /\ last_call = NoFlush
    /\ InitSymbolsFresh
    /\ InitFeed
    /\ InitHubIdle

NextFlush == AggregateCall

SpecFlush == InitFlush /\ [][NextFlush]_vars

\* Ticks with counted quantities arrive while the clock runs.
NextRing ==
    \/ IngestNumbered
    \/ AdvanceClock

SpecRing == InitAgg /\ [][NextRing]_vars

\* Searches over the cache the symbol manager loaded.
InitSearch == InitAggIdle /\ InitSearchSymbols /\ InitFeed /\ InitHubIdle

NextSearch == SearchCall

SpecSearch == InitSearch /\ [][NextSearch]_vars

\* A caller awaits symbol_manager.get_symbol_info(arg) for a listed symbol
\* while sqlite works and the NSE API does not answer.
ResolveListed ==
    \E arg \in {ITC, AAPL} : \E env \in FeedResolveEnvs(arg) :
        /\ Len(symbol_requests) < MaxRequests
        /\ Resolved(arg, env, GetSymbolInfo(SymbolState, arg, env))
        /\ UNCHANGED <<aggVars, feedVars, hubVars>>

\* Searches over a cache that callers extend by resolving symbols.
NextCatalog ==
    \/ ResolveListed
    \/ SearchCall

SpecCatalog == InitSearch /\ [][NextCatalog]_vars

\* The relay before the feed client has connected: viewers connect, send
\* commands and leave, and callers broadcast.
InitRelay ==
    /\ variant \in Variants
    /\ now = 0
    /\ tick_buffer = <<>>
    /\ last_aggregation_time = 0
    /\ last_call = NoFlush
    /\ InitSymbolsFresh
    /\ InitFeed
    /\ InitHub

SpecRelay == InitRelay /\ [][NextRelay]_vars

\* One viewer and the feed client: startup's connect() task runs, the
\* exchange closes the transport, and the viewer connects and sends commands.
LiveSessions == {"s1"}

NextLive ==
    \/ \E s \in LiveSessions : ViewerConnect(s)
    \/ \E s \in LiveSessions : ViewerCommand(s)
    \/ MarketTurns
    \/ StartConnect
    \/ HandshakeOk("connect")
    \/ Subscribe("connect")
    \/ PeerClose

SpecLive == InitRelay /\ [][NextLive]_vars

(***************************************************************************)
(* Claims about tick aggregation (checked under SpecAgg).                  *)
(***************************************************************************)
RECURSIVE SumQuantities(_)
SumQuantities(ticks) ==
    IF ticks = <<>> THEN 0
    ELSE Head(ticks).quantity + SumQuantities(Tail(ticks))

RECURSIVE SumTotalVolume(_, _)
SumTotalVolume(data, ps) ==
    IF ps = {} THEN 0
    ELSE LET p == CHOOSE q \in ps : TRUE
         IN  data[p].total_volume + SumTotalVolume(data, ps \ {p})

TicksAt(ticks, p) == {i \in 1..Len(ticks) : ticks[i].price = p}

PricesOf(ticks) == {ticks[i].price : i \in 1..Len(ticks)}

\* C1: whenever aggregate_ticks flushes (v1 and v2), the total_volume of the
\* per-price records it produces sums to the quantities of exactly the ticks
\* that were buffered when the flush started, there is one record for each
\* buffered price and no other, and each record's trade_count is the number
\* of buffered ticks at that exact price.
C1_VolumeConservation ==
    last_call.flushed =>
        /\ SumTotalVolume(last_call.data, DOMAIN last_call.data)
              = SumQuantities(last_call.input)
        /\ DOMAIN last_call.data = PricesOf(last_call.input)
        /\ \A p \in DOMAIN last_call.data :
              last_call.data[p].trade_count
                 = Cardinality(TicksAt(last_call.input, p))

\* A v2 flush of three buffered ticks at two prices.
C1_Witness ==
    /\ variant = "v2"
    /\ last_call.flushed
    /\ Len(last_call.input) = 3
    /\ Cardinality(DOMAIN last_call.data) = 2

\* C2: every record produced by a flush, for any mix of sides and quantities
\* of the ingested ticks, has buy_volume + sell_volume = total_volume, in the
\* v1 (side-aware) and in the v2 (per-tick floor/ceil split) aggregator.
C2_BuySellSplit ==
    last_call.flushed =>
        \A p \in DOMAIN last_call.data :
            last_call.data[p].buy_volume + last_call.data[p].sell_volume
               = last_call.data[p].total_volume

\* A v1 flush in which one price got a buy tick, a sell tick and a tick of
\* unknown side.
C2_Witness ==
    /\ variant = "v1"
    /\ last_call.flushed
    /\ \E p \in DOMAIN last_call.data :
          {last_call.input[i].side : i \in TicksAt(last_call.input, p)} = Sides

(***************************************************************************)
(* Claims about symbol resolution (checked under SpecSym).                 *)
(***************************************************************************)
Range(f) == {f[x] : x \in DOMAIN f}

\* C6: once get_symbol_info has resolved a symbol through a network source
\* (primary or alternate), every later call for that symbol, in any letter
\* case, returns that same record from the memory cache and consults no
\* network source.
C6_CachedAfterNetworkHit ==
    last_resolve.prior_net =>
        /\ last_resolve.result = net_resolved[Upper(last_resolve.arg)]
        /\ last_resolve.consulted = <<"memory">>

\* A call in another letter case for a symbol an alternate source resolved
\* earlier.
C6_Witness ==
    /\ last_resolve.prior_net
    /\ last_resolve.arg /= Upper(last_resolve.arg)
    /\ Upper(last_resolve.arg) \notin DOMAIN MockSymbols

\* A get_symbol_info call has just returned None.
ResolveFailed ==
    /\ symVars' /= symVars
    /\ last_resolve'.result = None

UnknownRow(arg) == [symbol |-> Upper(arg), status |-> "unknown"]

\* The get_symbol_info call after one that returned None asks for the same
\* symbol.
RetryAfterFailure ==
    /\ symVars' /= symVars
    /\ last_resolve.result = None
    /\ Upper(last_resolve'.arg) = Upper(last_resolve.arg)

\* The retry goes through the network sources: the primary lookup, the DhanHQ
\* quote API and, when that gives nothing, the NSE quote API.
RetryConsultsNetwork ==
    /\ "primary" \in Range(last_resolve'.consulted)
    /\ "dhanhq" \in Range(last_resolve'.consulted)
    /\ last_resolve'.result = None => "nse" \in Range(last_resolve'.consulted)

SourceOrder == <<"memory", "primary", "dhanhq", "nse">>

NetworkHit == Len(last_resolve.consulted) > 1 /\ last_resolve.result /= None

\* C13: a resolution consults its sources in the fixed order and stops at the
\* first one that has the symbol, and a hit on a network source leaves the
\* record in every earlier cache layer: the in-memory cache and the durable
\* symbols table.
C13_FirstHitPopulatesEarlierLayers ==
    LET symbol == Upper(last_resolve.arg)
        consulted == last_resolve.consulted
    IN  last_resolve /= NoCall =>
            /\ consulted = SubSeq(SourceOrder, 1, Len(consulted))
            /\ NetworkHit =>
                   /\ symbol \in DOMAIN symbols_cache
                   /\ symbols_cache[symbol] = last_resolve.result
                   /\ symbol \in DOMAIN db_symbols
                   /\ db_symbols[symbol] = SymbolRow(symbol, last_resolve.result)

\* C18: whenever get_symbol_info returns a record obtained from a network
\* source, the durable symbols table holds the record's row under the
\* upper-cased symbol with is_active = 1 and the in-memory cache holds the
\* record; a call whose sqlite write failed does not return a record.
C18_NetworkHitPersisted ==
    LET symbol == Upper(last_resolve.arg)
    IN  /\ NetworkHit =>
               /\ symbol \in DOMAIN db_symbols
               /\ db_symbols[symbol].is_active
               /\ db_symbols[symbol].token = Get(last_resolve.result, "token", "")
               /\ symbol \in DOMAIN symbols_cache
        /\ last_resolve.write = "failed" => last_resolve.result = None

(***************************************************************************)
(* Claims about the feed client (checked under SpecFeed).                  *)
(***************************************************************************)
\* C4: the wait before the k-th reconnect attempt in a row (k counted from
\* the last transport handshake that succeeded) is min(2^k, 30) seconds:
\* 2, 4, 8, 16, 30 for k = 1..5; no wait exceeds 30.
C4_BackoffDelays ==
    /\ Len(backoff.waits) <= 5
    /\ \A k \in 1..Len(backoff.waits) : backoff.waits[k] = <<2, 4, 8, 16, 30>>[k]

\* Five attempts in a row have been scheduled.
C4_Witness == backoff.waits = <<2, 4, 8, 16, 30>>

\* C5: in a run of connection failures with no successful subscribe in
\* between, the client makes at most 5 automatic reconnect attempts, and once
\* the attempts are exhausted and no attempt is still in progress it is
\* disconnected.
C5_AtMostFiveAttempts ==
    /\ backoff.run <= MaxReconnectAttempts
    /\ (/\ backoff.exhausted
        /\ \A t \in Tasks : feed_pc[t] \notin {"sleep", "handshake", "subscribe"})
          => ~connected

\* Messages process_message only logs: text that is no JSON, JSON that is no
\* object, type error, an unrecognized type.
OnlyLogged(msg) ==
    \/ ~msg.decodes
    \/ ~msg.object
    \/ msg.type \notin {"market_depth", "tick", "quote"}

\* C8: a feed message that is not decodable JSON, or is of type error or of
\* an unrecognized type, is dropped without changing the connection state
\* (the client's fields are as before, listen() is back at recv on the same
\* transport, no reconnect is started), and a valid message received next on
\* the connection is dispatched to its handler.
C8_BadMessageDropped ==
    last_message /= NoMessage =>
        /\ OnlyLogged(last_message.kind) =>
              /\ last_message.handler = "none"
              /\ last_message.after = last_message.before
              /\ Client = last_message.before
              /\ last_message.before.connected => feed_pc["listen"] = "recv"
        /\ ~OnlyLogged(last_message.kind) =>
              /\ last_message.kind.type = "market_depth"
                    => last_message.handler = "process_market_depth"
              /\ last_message.kind.type = "tick"
                    => last_message.handler = "process_tick"
              /\ last_message.kind.type = "quote"
                    => last_message.handler = "process_quote"

\* A tick envelope received right after undecodable text on a connected
\* client: it reached process_tick and is in the tick buffer.
C8_Witness ==
    /\ last_message /= NoMessage
    /\ last_message.prev = "undecodable"
    /\ last_message.kind.type = "tick"
    /\ last_message.handler = "process_tick"
    /\ last_message.before.connected
    /\ connected
    /\ feed_pc["listen"] = "recv"
    /\ tick_buffer /= <<>>

\* Two subscribe_market_depth() calls in a row for one active symbol, the
\* first made while the client was connected.
TwoSubscribesInARow ==
    /\ subscribes.prev /= NoSub
    /\ subscribes.last /= NoSub
    /\ subscribes.prev.before.connected
    /\ subscribes.prev.symbol = subscribes.last.symbol

\* The last two messages on the transport are the two calls' messages.
LastTwoSent ==
    /\ Len(sent_upstream) >= 2
    /\ sent_upstream[Len(sent_upstream) - 1]
          = SubscribeMsg(subscribes.prev.token)
    /\ sent_upstream[Len(sent_upstream)] = SubscribeMsg(subscribes.last.token)

C3_FailedSessionsPruned ==
    last_broadcast /= NoBroadcast =>
        last_broadcast.after = last_broadcast.sessions \ last_broadcast.failing

\* C10: every command envelope a viewer sends (ping, change_symbol,
\* change_timeframe, search_symbols or any other) is answered on its session:
\* when the handler has finished with the command, it has sent a reply.
C10_EveryCommandAnswered ==
    (last_command /= NoCommand /\ last_command.command.type /= "undecodable")
        => last_command.replies /= <<>>

\* The terminal replies to a command: symbol_changed and symbol_error.
RECURSIVE TerminalReplies(_)
TerminalReplies(replies) ==
    IF replies = <<>> THEN 0
    ELSE (IF Head(replies).type \in {"symbol_changed", "symbol_error"} THEN 1 ELSE 0)
         + TerminalReplies(Tail(replies))

(***************************************************************************)
(* Claims about one viewer's commands and the feed client (checked under   *)
(* SpecLive).                                                              *)
(***************************************************************************)
\* C11: for every change_symbol command the requesting viewer is sent exactly
\* one terminal reply (symbol_changed or symbol_error), whether or not the
\* upstream subscribe send or the historical fetch fails.
C11_ExactlyOneTerminalReply ==
    (last_command /= NoCommand /\ last_command.command.type = "change_symbol")
        => TerminalReplies(last_command.replies) = 1

\* A connect attempt of the feed client is pending: its task sleeps in
\* backoff or awaits the handshake.
Pending(t) == feed_pc[t] \in {"sleep", "handshake"}

\* C16: at most one connect attempt of the feed client is in flight, and a
\* viewer's symbol change that is accepted while an attempt is pending
\* abandons it and starts a fresh one: no task is left sleeping out the old
\* backoff, one task is in the handshake of the new attempt.
C16_PendingAttemptReplaced ==
    [][/\ Cardinality({t \in Tasks : Pending(t)}) <= 1
       /\ (current_symbol' /= current_symbol /\ \E t \in Tasks : Pending(t))
              => /\ \A t \in Tasks : feed_pc'[t] /= "sleep"
                 /\ \E t \in Tasks : feed_pc'[t] = "handshake"]_vars

\* A step in which a command loop has handled a ping.
PingHandled ==
    /\ last_command' /= last_command
    /\ last_command' /= NoCommand
    /\ last_command'.command.type = "ping"

\* C19: handling a viewer's ping sends that viewer exactly one pong and
\* leaves the feed connection (transport, connected flag, task positions),
\* the reconnect counter, the active symbol, the tick buffer and the set of
\* registered sessions as they were.
C19_PingOnlyPongs ==
    [][PingHandled =>
          /\ last_command'.replies = <<Reply("pong", "")>>
          /\ ~last_command'.raised
          /\ UNCHANGED <<websocket, connected, feed_pc, sent_upstream>>
          /\ UNCHANGED reconnect_attempts
          /\ UNCHANGED current_symbol
          /\ UNCHANGED tick_buffer
          /\ UNCHANGED connected_clients]_vars

\* A viewer's ping was answered while the feed client was connected and the
\* active symbol was one a viewer had chosen.
C19_Witness ==
    /\ last_command /= NoCommand
    /\ last_command.command.type = "ping"
    /\ last_command.replies = <<Reply("pong", "")>>
    /\ last_command.session \in connected_clients
    /\ connected
    /\ current_symbol = TCS

(***************************************************************************)
(* Claims about symbol search (checked under SpecSearch).                  *)
(***************************************************************************)
Searched == last_search /= NoSearch

\* The ranks of the returned records are non-decreasing.
RanksNonDecreasing(query, results) ==
    \A i, j \in 1..Len(results) :
        i < j => SearchRank(query, results[i]) <= SearchRank(query, results[j])

C17_ResetOnlyAfterSubscribe ==
    [][(reconnect_attempts > 0 /\ reconnect_attempts' = 0)
          => Len(sent_upstream') = Len(sent_upstream) + 1]_vars

(***************************************************************************)
(* Further claims about the broadcast hub (checked under SpecRelay).       *)
(***************************************************************************)
\* C20: a broadcast call with at least one registered session raises nothing
\* to its caller, whichever of its sends fail, and all a failed send does is
\* remove that session from the registered set.
C20_DeliveryErrorsContained ==
    (last_broadcast /= NoBroadcast /\ last_broadcast.sessions /= {})
        => /\ last_broadcast.raised = "none"
           /\ last_broadcast.sessions \ last_broadcast.after
                  \subseteq last_broadcast.failing

\* The tasks that stand in the listen loop, at websocket.recv().
Consumers == {t \in Tasks : feed_pc[t] = "recv"}

\* A step in which a message of the feed was taken from the transport.
MessageTaken == last_message' /= NoMessage /\ last_message' /= last_message

\* C15: the feed's messages are processed one at a time by a single
\* consumer: only the task that runs listen() ever stands at recv(), also
\* after reconnects, and a message is taken only by that task standing at
\* recv(), which is back at the loop (or has left it) once the message's
\* handler, tick ingestion included, is through.
C15_SingleConsumer ==
    /\ [](Consumers \subseteq {"listen"})
    /\ [][MessageTaken =>
             /\ feed_pc["listen"] = "recv"
             /\ feed_pc'["listen"] \in {"recv", "returned"}
             /\ feed_pc'["connect"] = feed_pc["connect"]
             /\ last_message'.handler = "process_tick"
                    => tick_buffer' = AggregateTicks(variant,
                                         DequeAppend(tick_buffer, FeedTick),
                                         last_aggregation_time, now).buffer]_vars

\* The listen loop took a tick right after another decoded message, after
\* two subscribe requests had gone upstream and connect()'s task had ended.
C15_Witness ==
    /\ last_message /= NoMessage
    /\ last_message.prev = "decoded"
    /\ last_message.handler = "process_tick"
    /\ tick_buffer /= <<>>
    /\ Len(sent_upstream) = 2
    /\ feed_pc["connect"] = "returned"
    /\ Consumers = {"listen"}

TokenOf(cache, symbol) ==
    IF Upper(symbol) \in DOMAIN cache THEN cache[Upper(symbol)].token
    ELSE IF symbol \in DOMAIN DefaultSymbols THEN DefaultSymbols[symbol].token
    ELSE ""

\* A step in which a viewer's change_symbol was accepted: the symbol
\* resolved, so the handler did not answer symbol_error.
ChangeAccepted ==
    /\ last_command' /= NoCommand
    /\ last_command'.command.type = "change_symbol"
    /\ \A i \in 1..Len(last_command'.replies) :
           last_command'.replies[i].type /= "symbol_error"
    /\ \/ last_command' /= last_command
       \/ current_symbol' /= current_symbol

\* C22: a symbol change accepted while the feed client is not connected
\* sends no subscribe message and makes the symbol the active one; every
\* subscribe message sent later, the first one after the next successful
\* connect() included, carries the token of the symbol that is active then,
\* and in main.py only an accepted change makes another symbol the active one.
C22_NextConnectTargetsNewSymbol ==
    [][/\ (ChangeAccepted /\ ~connected)
              => /\ sent_upstream' = sent_upstream
                 /\ Upper(current_symbol') = Upper(last_command'.command.symbol)
       /\ (variant = "v1" /\ ~ChangeAccepted) => current_symbol' = current_symbol
       /\ Len(sent_upstream') > Len(sent_upstream)
              => sent_upstream'[Len(sent_upstream')].instrument_token
                     = TokenOf(symbols_cache', current_symbol')]_vars

\* A viewer's change to "tcs" was accepted for live data while the feed
\* client was not connected, and the one subscribe message sent since, by
\* connect(), carries the token resolved for TCS.
C22_Witness ==
    /\ connected
    /\ websocket = "open"
    /\ feed_pc["connect"] = "returned"
    /\ Len(sent_upstream) = 1
    /\ last_command /= NoCommand
    /\ last_command.command.type = "change_symbol"
    /\ last_command.replies = <<Reply("symbol_changed", "live")>>
    /\ current_symbol = <<"t", "c", "s">>
    /\ sent_upstream[1].instrument_token = "2953217"

(***************************************************************************)
(* Further claims about the tick aggregator (checked under SpecAgg).       *)
(***************************************************************************)
\* C23: every buffered tick is emitted within one aggregation window of the
\* previous flush, whether or not another tick arrives: the buffer holds no
\* tick once more than a window has passed since the last flush.
C23_FlushedWithinWindow ==
    tick_buffer /= <<>> => now - last_aggregation_time <= AggregationWindow

RECURSIVE SideAwareBuy(_, _)
SideAwareBuy(ticks, p) ==
    IF ticks = <<>> THEN 0
    ELSE LET t == Head(ticks)
         IN  (IF t.price /= p \/ t.side = "sell" THEN 0
              ELSE IF t.side = "buy" THEN t.quantity
              ELSE t.quantity \div 2)
             + SideAwareBuy(Tail(ticks), p)

RECURSIVE SideAwareSell(_, _)
SideAwareSell(ticks, p) ==
    IF ticks = <<>> THEN 0
    ELSE LET t == Head(ticks)
         IN  (IF t.price /= p \/ t.side = "buy" THEN 0
              ELSE IF t.side = "sell" THEN t.quantity
              ELSE t.quantity - (t.quantity \div 2))
             + SideAwareSell(Tail(ticks), p)

\* C27: in the v1 aggregator buy ticks add their quantity to buy_volume only,
\* sell ticks to sell_volume only, and the quantity of a tick of unknown side
\* is split 50/50, buy rounded down and sell rounded up.
C27_UnknownSideSplit ==
    (variant = "v1" /\ last_call.flushed) =>
        \A p \in DOMAIN last_call.data :
            /\ last_call.data[p].buy_volume = SideAwareBuy(last_call.input, p)
            /\ last_call.data[p].sell_volume = SideAwareSell(last_call.input, p)

C26_RingKeepsNewest ==
    /\ Len(tick_buffer) <= TickBufferMaxLen
    /\ \A i \in 1..(Len(tick_buffer) - 1) :
           tick_buffer[i + 1].quantity = tick_buffer[i].quantity + 1
    /\ last_call.flushed =>
           /\ Len(last_call.input) <= TickBufferMaxLen
           /\ \A i \in 1..(Len(last_call.input) - 1) :
                  last_call.input[i + 1].quantity = last_call.input[i].quantity + 1

\* The buffer is full and the newest tick is the last one that can arrive:
\* the ticks before the oldest buffered one were discarded one by one.
C26_Witness ==
    /\ Len(tick_buffer) = TickBufferMaxLen
    /\ tick_buffer[1].quantity = MaxSeq - TickBufferMaxLen + 1
    /\ tick_buffer[1].quantity > 1
    /\ tick_buffer[Len(tick_buffer)].quantity = MaxSeq

\* ---------------------------------------------------------------------
\* C28.  An accepted change_symbol is answered from the market state at
\* the time the command is handled.

\* The reply that closes the last command, when it accepted the symbol.
SymbolChangedReplies ==
    IF last_command = NoCommand THEN {}
    ELSE {last_command.replies[i] : i \in DOMAIN last_command.replies}
            \cap {Reply("symbol_changed", "live"), Reply("symbol_changed", "historical")}

\* A live feed exists to resubscribe: main.py always has its client,
\* main_v2.py needs the SDK manager.
LiveFeedAvailable == variant = "v2" => dhan_manager /= "None"

\* C28: on a change_symbol whose symbol resolves the viewer is told
\* data_mode live exactly when the market is open while the command is
\* handled (and a live feed exists), and data_mode historical otherwise; a
\* market state seen earlier in the session plays no part.
C28_ModeFromCurrentMarketState ==
    \A r \in SymbolChangedReplies :
        r.data_mode = "live" <=> (market_open /\ LiveFeedAvailable)

\* ---------------------------------------------------------------------
\* C29.  One broadcast pass reaches every registered session whose send
\* works.

\* C29: a broadcast pass sends the message to every session registered when
\* it starts, each on its own: the sessions whose send works all get the
\* message whichever other sessions fail.
C29_EveryWorkingSessionReached ==
    last_broadcast /= NoBroadcast =>
        last_broadcast.delivered = last_broadcast.sessions \ last_broadcast.failing

\* ---------------------------------------------------------------------
\* C30.  A change_symbol that no source resolves.

\* A step in which a viewer's change_symbol was handled and its symbol was
\* found nowhere: get_symbol_info returned None and, in main.py, the symbol
\* is no key of DEFAULT_SYMBOLS.
UnresolvedChange ==
    /\ last_command' /= last_command
    /\ last_command' /= NoCommand
    /\ last_command'.command.type = "change_symbol"
    /\ last_resolve'.result = None
    /\ variant = "v1" => last_command'.command.symbol \notin DOMAIN DefaultSymbols

\* C30: a change_symbol whose symbol resolves nowhere is answered with
\* symbol_error and nothing else; the handler raises nothing, the session
\* stays registered at its command loop, and the active symbol, the
\* subscribe messages sent upstream and the feed client's connection state
\* are what they were.
C30_UnresolvedChangeNotFatal ==
    [][UnresolvedChange
          => /\ last_command'.replies = <<Reply("symbol_error", "")>>
             /\ ~last_command'.raised
             /\ last_command'.session \in connected_clients'
             /\ viewers'[last_command'.session].pc = "receive"
             /\ viewers'[last_command'.session].peer = "open"
             /\ current_symbol' = current_symbol
             /\ sent_upstream' = sent_upstream
             /\ subscribes' = subscribes
             /\ UNCHANGED <<clientVars, feed_pc>>]_vars

\* The feed client is connected and subscribed, and the viewer's last
\* command asked for "tcs", which no source resolved: the viewer was told
\* symbol_error and is still registered.
C30_Witness ==
    /\ connected
    /\ Len(sent_upstream) = 1
    /\ last_command /= NoCommand
    /\ last_command.command.type = "change_symbol"
    /\ last_resolve.result = None
    /\ last_command.replies = <<Reply("symbol_error", "")>>
    /\ last_command.session \in connected_clients
    /\ variant = "v1" => last_command.command.symbol \notin DOMAIN DefaultSymbols

(***************************************************************************)
(* Search order among records of equal rank (checked under SpecCatalog).   *)
(***************************************************************************)
\* Position of symbol in a dict order.
PositionIn(order, symbol) == CHOOSE i \in DOMAIN order : order[i] = symbol

\* How recent the last_updated of a cached symbol is, as a number that grows
\* with last_updated.  The keys loaded at startup come in decreasing
\* last_updated; a key _cache_symbol added since has last_updated =
\* datetime.now() of its call, later than every loaded row and than every key
\* added before it, and stands behind them in the dict.
LastUpdated(order, symbol) ==
    IF symbol \in DOMAIN net_resolved
    THEN PositionIn(order, symbol)
    ELSE 0 - PositionIn(order, symbol)

\* C31: of two returned records of equal rank the one updated later comes
\* first, also when one of them was resolved and cached after startup.
C31_TiesByDecreasingLastUpdated ==
    Searched =>
        LET query == Upper(last_search.query)
            results == last_search.results
        IN  \A i, j \in 1..Len(results) :
                (i < j /\ SearchRank(query, results[i]) = SearchRank(query, results[j]))
                    => LastUpdated(last_search.order, results[i].symbol)
                           > LastUpdated(last_search.order, results[j].symbol)

(***************************************************************************)
(* The listen loop after startup (checked under SpecStartup).              *)
(***************************************************************************)
\* connect() has returned on a client that is connected and has sent its
\* subscribe request.
ConnectedAndSubscribed ==
    /\ connected
    /\ websocket = "open"
    /\ feed_pc["connect"] = "returned"
    /\ Len(sent_upstream) > 0

\* C32: once startup has scheduled connect() and listen(), a client that is
\* connected and subscribed has a task in the listen loop, at
\* websocket.recv(), so that what the feed delivers next is received.
C32_ListenLoopRunsWhenSubscribed ==
    ConnectedAndSubscribed => Consumers /= {}

(***************************************************************************)
(* The upstream subscription and the active symbol (checked under          *)
(* SpecLive).                                                              *)
(***************************************************************************)
\* The feed client of main.py is connected, its connect() has returned and a
\* subscribe message has gone upstream.
FeedSubscribed ==
    /\ variant = "v1"
    /\ connected
    /\ feed_pc["connect"] = "returned"
    /\ Len(sent_upstream) > 0

\* C34: between commands, while the feed client is connected, the subscribe
\* message sent last carries the token of the active symbol: no accepted
\* change_symbol leaves the feed subscribed to the symbol before it.
C34_SubscriptionFollowsActiveSymbol ==
    FeedSubscribed =>
        sent_upstream[Len(sent_upstream)].instrument_token
            = TokenOf(symbols_cache, current_symbol)

(***************************************************************************)
(* Claims about the SDK feed of main_v2.py (checked under SpecSdk).        *)
(***************************************************************************)
\* The threads started by the latest subscribe_symbol call.
CurrentThreads ==
    {i \in DOMAIN market_feed.threads :
        market_feed.threads[i].subscription = market_feed.subscriptions}

\* C35: the depth and ticker loops started for the symbol subscribed last
\* run: none of them leaves its loop because of the stop flag that
\* unsubscribing the previous symbol set, so a feed reported connected has
\* loops that can deliver.
C35_NewFeedLoopsRun ==
    \A i \in CurrentThreads : market_feed.threads[i].cause /= "stopped"

\* C37: when the loops started for the current subscription have ended on
\* an error, every such error has gone to the error callback and
\* is_connected is False.
C37_StatusFollowsFeedLoops ==
    (/\ CurrentThreads /= {}
     /\ \A i \in CurrentThreads : market_feed.threads[i].cause = "error")
        => /\ ~market_feed.is_connected
           /\ market_feed.errors >= Cardinality(CurrentThreads)

\* C38: every update a feed thread hands to the manager's callbacks is run
\* by the handler registered for it: none is dropped unexecuted.
C38_HandedUpdatesAreExecuted ==
    /\ market_feed.dropped = 0
    /\ market_feed.executed = market_feed.handed

(***************************************************************************)
(* The registered set and the handlers (checked under SpecRelay).          *)
(***************************************************************************)
\* C36: a session is registered only while its handler lives: once the
\* handler has ended, whether on a disconnect, on an error or on the failure
\* of its very first send, the session is no longer in connected_clients.
C36_RegisteredOnlyWhileHandled ==
    \A s \in connected_clients : viewers[s].pc = "receive"

\* A step in which a session's handler took a message that is no JSON.
UndecodableHandled ==
    /\ last_command' /= last_command
    /\ last_command' /= NoCommand
    /\ last_command'.command.type = "undecodable"

\* C39: a message that cannot be decoded as JSON ends the handler of the
\* session that sent it and unregisters that session, without a reply; the
\* other sessions and their registrations, the feed client's connection, the
\* active symbol and the tick buffer are what they were.
C39_UndecodableEndsOnlyItsSession ==
    [][UndecodableHandled
          => /\ last_command'.raised
             /\ last_command'.replies = <<>>
             /\ viewers'[last_command'.session] = EndedViewer
             /\ connected_clients' = connected_clients \ {last_command'.session}
             /\ \A o \in Sessions \ {last_command'.session} : viewers'[o] = viewers[o]
             /\ UNCHANGED <<current_symbol, clientVars, feed_pc, sent_upstream,
                            tick_buffer, last_aggregation_time>>]_vars

\* A session sent text that is no JSON and is gone from the registered set,
\* in which another session still stands at its command loop.
C39_Witness ==
    /\ last_command /= NoCommand
    /\ last_command.command.type = "undecodable"
    /\ last_command.raised
    /\ last_command.session \notin connected_clients
    /\ viewers[last_command.session] = EndedViewer
    /\ \E o \in connected_clients : viewers[o].pc = "receive"

=============================================================================
